---- MODULE Spec2Model ----
(***************************************************************************)
(* A model of the ColorNotify notification light: the light sequence       *)
(* interpreter (utils/light_sequence.py), the wrapped light state tracker  *)
(* (utils/wrapped_light_state.py) and the per-light worker loop (light.py).*)
(*                                                                         *)
(* The specifications of the module:                                       *)
(*   SpecSeq      one pattern is compiled and then stepped                 *)
(*   SpecTracker  update/freeze/unfreeze calls on one WrappedLightState    *)
(*   Spec         one NotificationLightEntity with its worker loop         *)
(*   SpecTop, SpecCycle  _get_top_sequences and the Cycle branch alone      *)
(*   SpecLights   two lights that hold the shared LIGHT_OFF_SEQUENCE        *)
(*   SpecInterp   ColorInfo.interpolated_to on its own                      *)
(*   SpecTurnOn   async_turn_on calls with color arguments                  *)
(*   SpecCycleAny the Cycle branch on any sorted Active Set                 *)
(*   SpecStarted  the worker loop from its first started notification on    *)
(*   SpecRaise    the worker loop when the outbound service call raises     *)
(*   SpecCancel   the same with the removal of the entity                   *)
(*   SpecRestart  the worker loop with its queue reads across restarts      *)
(*   SpecAnim     the task of one animation                                 *)
(*   SpecUrgent   the entity with notifications above the light's priority  *)
(*   SpecOn       turn_on and turn_off alone, the worker scheduled fairly    *)
(*   SpecNested   a pattern of two nested finite loops, run to its end      *)
(***************************************************************************)
EXTENDS Integers, Sequences, FiniteSets, TLC

VARIABLES
    \* ---- light sequence interpreter (SpecSeq) ----
    pattern,        \* the pattern handed to create_from_pattern
    phase,          \* "new" | "compiled" | "failed" | "idle" (other specifications)
    sequence,       \* what create_from_pattern produced: steps, loops_forever, error
    workspace,      \* _SeqWorkspace: next_idx, data (loop records), color
    calls,          \* number of runNextStep calls made so far
    rets,           \* the value returned by each runNextStep call, in order
    set_trace,      \* the colors set by executed _StepSetColor steps, in order
    \* ---- wrapped light state tracker (SpecTracker, Spec) ----
    wrapped_state,  \* WrappedLightState: _state, _attrs, _frozen
    last_accepted,  \* the last state object handed to update() while not frozen
    last_call,      \* the tracker method called last
    \* ---- notification light entity and its worker loop (Spec) ----
    config,         \* the config entry: data and options read by the entity
    setup,          \* async_added_to_hass: "new" | "added" | "restored" | "idle"
    active,         \* _active_sequences: ordered mapping key -> sequence
    running,        \* _running_sequences: mapping notify_id -> sequence
    task_queue,     \* _task_queue: the _QueueEntry items not yet taken
    pc,             \* the worker: "process" | "sleep" | "wait" | "idle"
    peek_timers,    \* pending restore_priority timers, in firing order
    cycle_canceler, \* TRUE while a queue_cycle timer is pending
    last_set_color, \* _last_set_color
    startup_quiet,  \* _startup_quiet
    wrapped_init_done,  \* _wrapped_init_done
    response_expected,  \* time.time() <= _response_expected_expire_time
    events,         \* number of events the light has received so far
    last_service,   \* the last service call made on the wrapped light
    \* ---- _get_top_sequences on its own (SpecTop) ----
    top_sequences,  \* what _get_top_sequences returned: None until it is called
    \* ---- the ACTION_CYCLE_SAME branch on its own (SpecCycle) ----
    cycle_trace,    \* the Active Set at the start and after each Cycle command
    \* ---- two lights in one process (SpecLights) ----
    lights,         \* per light: added, a notification active, base off running, worker
    off_sequence,   \* the module-level LIGHT_OFF_SEQUENCE object: task, stop event, step signal
    \* ---- functions called on their own (SpecInterp) ----
    interp,         \* ColorInfo.interpolated_to: start, end, amount and the result
    \* ---- async_turn_on on its own (SpecTurnOn) ----
    last_on_rgb,    \* _last_on_rgb
    turn_on_log,    \* the keyword arguments of the async_turn_on calls made, in order
    \* ---- the queue reads of the worker loop (SpecRestart) ----
    q_reads,        \* q_task of the running _work_loop, and the reads abandoned loops left pending
    \* ---- the task of one animation (SpecAnim) ----
    anim_task       \* _NotificationSequence: _task, _stop_event, steps left, calls made

seqVars == <<pattern, phase, sequence, workspace, calls, rets, set_trace>>
trackerVars == <<wrapped_state, last_accepted, last_call>>
schedVars == <<config, setup, active, running, task_queue, pc,
               peek_timers, cycle_canceler, last_set_color, startup_quiet,
               wrapped_init_done, response_expected, events, last_service>>

turnOnVars == <<last_on_rgb, turn_on_log>>

taskVars == <<q_reads, anim_task>>

funcVars == <<interp, turnOnVars, taskVars>>

pureVars == <<top_sequences, cycle_trace, lights, off_sequence, funcVars>>

vars == <<seqVars, trackerVars, schedVars, pureVars>>

----------------------------------------------------------------------------
(* Bounds of the model.                                                    *)

MaxPatternLen == 4
MaxRepeat == 2
MaxCalls == 16

----------------------------------------------------------------------------
(* Python values.  An optional value is None or Some(v).                   *)

None == <<>>
Some(v) == <<v>>
Val(opt) == opt[1]

Range(s) == {s[i] : i \in DOMAIN s}

Min(S) == CHOOSE x \in S : \A y \in S : x <= y

Last(s) == s[Len(s)]

OFF_RGB == <<0, 0, 0>>
WARM_WHITE_RGB == <<255, 249, 216>>

\* ColorInfo(rgb, brightness, kelvin, transition, explicit_brightness)
ColorInfo(rgb, brightness, kelvin, transition, explicit_brightness) ==
    [rgb |-> rgb, brightness |-> brightness, kelvin |-> kelvin,
     transition |-> transition, explicit_brightness |-> explicit_brightness]

DefaultBrightness == 100

\* ColorInfo(OFF_RGB, 0): the dim "off" color
OffColor == ColorInfo(OFF_RGB, 0, None, None, None)

----------------------------------------------------------------------------
(* Pattern items.  A string item is kept as what str.strip, str.startswith,*)
(* str.split(",") and json.loads read from it: its head ("[", "]" or the   *)
(* text of a color step), the comma separated parts that follow a "]", and *)
(* for a color step whether the text is JSON and the mapping it holds.     *)

EmptyDict ==
    [rgb |-> None, kelvin |-> None, transition |-> None,
     brightness |-> None, delay |-> None]

ItemColorInfo(c) ==
    [kind |-> "ColorInfo", color |-> c, head |-> "", parts |-> <<>>,
     json_ok |-> TRUE, dict |-> EmptyDict]

ItemOpen ==
    [kind |-> "str", color |-> OffColor, head |-> "[", parts |-> <<>>,
     json_ok |-> TRUE, dict |-> EmptyDict]

\* "]" is ItemClose(<<>>), "],N" is ItemClose(<<N>>)
ItemClose(parts) ==
    [kind |-> "str", color |-> OffColor, head |-> "]", parts |-> parts,
     json_ok |-> TRUE, dict |-> EmptyDict]

ItemJson(ok, d) ==
    [kind |-> "str", color |-> OffColor, head |-> "{", parts |-> <<>>,
     json_ok |-> ok, dict |-> d]

Red == ColorInfo(<<255, 0, 0>>, DefaultBrightness, None, None, None)

\* '{"rgb": [0,255,0], "kelvin": 3000, "delay": 0}'
GreenNoDelay ==
    ItemJson(TRUE, [EmptyDict EXCEPT !.rgb = Some(<<0, 255, 0>>),
                                     !.kelvin = Some(3000), !.delay = Some(0)])

\* '{"kelvin": 2700, "brightness": 128, "delay": 1}'
KelvinDelay ==
    ItemJson(TRUE, [EmptyDict EXCEPT !.kelvin = Some(2700),
                                     !.brightness = Some(128), !.delay = Some(1)])

\* 'not valid json at all'
NotJson == ItemJson(FALSE, EmptyDict)

\* '{"delay": 1}'
NoColorJson == ItemJson(TRUE, [EmptyDict EXCEPT !.delay = Some(1)])

ColorItems == {ItemColorInfo(Red), GreenNoDelay, KelvinDelay}
BadItems == {NotJson, NoColorJson}
CloseItems == {ItemClose(<<>>)} \cup {ItemClose(<<n>>) : n \in -1..MaxRepeat}
Items == ColorItems \cup BadItems \cup {ItemOpen} \cup CloseItems

\* every list of at most MaxPatternLen items
Patterns == UNION {[1..n -> Items] : n \in 0..MaxPatternLen}

----------------------------------------------------------------------------
(* Steps of a compiled sequence.  idx is the step's 0-based index.         *)

Step(op, color, delay, loop_id, total_repeats) ==
    [op |-> op, color |-> color, delay |-> delay, loop_id |-> loop_id,
     total_repeats |-> total_repeats, idx |-> 0]

StepSetColor(color) == Step("SetColor", color, 0, 0, 0)
StepDelay(delay) == Step("Delay", OffColor, delay, 0, 0)
StepOpenLoop(loop_id) == Step("OpenLoop", OffColor, 0, loop_id, 0)
StepCloseLoop(loop_id, loop_cnt) == Step("CloseLoop", OffColor, 0, loop_id, loop_cnt)

\* LightSequence._addStep
AddStep(steps, step) == Append(steps, [step EXCEPT !.idx = Len(steps)])

----------------------------------------------------------------------------
(* LightSequence.create_from_pattern.  The compiler's locals are one       *)
(* record; idx is the 0-based index of enumerate(pattern).                 *)

CompileStart ==
    [steps |-> <<>>, loop_stack |-> <<>>, next_loop_id |-> 1,
     initial_color |-> None, loops_forever |-> FALSE, error |-> None]

Error(kind, entry) == Some([kind |-> kind, entry |-> entry])

\* iter_cnt = int(parts[1]) if len(parts) == 2 else -1; parts holds what follows "]"
CloseIterCnt(parts) == IF Len(parts) = 1 THEN parts[1] ELSE -1

\* faulty variant: the 0-based index is reported
CloseErrorEntry_ZeroBased(idx) == idx

\* f"Loop close in entry #{idx+1} with no open loop!"
CloseErrorEntry(idx) == idx + 1

\* f"Error in entry #{idx+1}: ..." and f"Entry #{idx+1} must have 'rgb' or 'kelvin'"
JsonErrorEntry(idx) == idx + 1

\* f"The loop opened at entry #{loop_stack[0]} was not closed!"
UnclosedErrorEntry(loop_stack) == loop_stack[1]

\* the truth value Python gives an optional list / an optional number
TruthyList(opt) == opt # None /\ Val(opt) # <<>>
TruthyNum(opt) == opt # None /\ Val(opt) # 0

\* ColorInfo(rgb=tuple(rgb) if rgb else WARM_WHITE_RGB, kelvin=kelvin if not rgb else None, ...)
JsonColor(d) ==
    ColorInfo(IF TruthyList(d.rgb) THEN Val(d.rgb) ELSE WARM_WHITE_RGB,
              DefaultBrightness,
              IF TruthyList(d.rgb) THEN None ELSE d.kelvin,
              d.transition,
              d.brightness)

\* faulty variant: a delay of 0 still emits a Delay step
AddDelayStep_ZeroDelay(steps, d) ==
    IF d.delay # None THEN AddStep(steps, StepDelay(Val(d.delay))) ELSE steps

\* if delay := item_dict.get(CONF_DELAY): new_sequence._addStep(_StepDelay(delay))
AddDelayStep(steps, d) ==
    IF TruthyNum(d.delay) THEN AddStep(steps, StepDelay(Val(d.delay))) ELSE steps

\* faulty variant: a repeat count of 0 counts as forever
MarksForever_ZeroIsForever(iter_cnt) == iter_cnt <= 0

\* if iter_cnt < 0: new_sequence._loops_forever = True
MarksForever(iter_cnt) == iter_cnt < 0

\* the "]" branch of the loop body
AddCloseItem(st, idx, item) ==
    LET iter_cnt == CloseIterCnt(item.parts)
        forever == st.loops_forever \/ MarksForever(iter_cnt)
        depth == Len(st.loop_stack)
    IN  IF depth = 0
        THEN [st EXCEPT !.loops_forever = forever,
                        !.error = Error("no_open_loop", CloseErrorEntry(idx))]
        ELSE [st EXCEPT !.loops_forever = forever,
                        !.steps = AddStep(@, StepCloseLoop(st.loop_stack[depth], iter_cnt)),
                        !.loop_stack = SubSeq(@, 1, depth - 1)]

\* the color step branch of the loop body
AddJsonItem(st, idx, item) ==
    IF ~item.json_ok
    THEN [st EXCEPT !.error = Error("json", JsonErrorEntry(idx))]
    ELSE IF item.dict.rgb = None /\ item.dict.kelvin = None
    THEN [st EXCEPT !.error = Error("no_color", JsonErrorEntry(idx))]
    ELSE LET color == JsonColor(item.dict)
         IN  [st EXCEPT !.initial_color = IF @ = None THEN Some(color) ELSE @,
                        !.steps = AddDelayStep(AddStep(@, StepSetColor(color)), item.dict)]

\* one pass of "for idx, item in enumerate(pattern)"
AddItem(st, idx, item) ==
    IF item.kind = "ColorInfo"
    THEN [st EXCEPT !.initial_color = IF @ = None THEN Some(item.color) ELSE @,
                    !.steps = AddStep(@, StepSetColor(item.color))]
    ELSE IF item.head = "["
    THEN [st EXCEPT !.steps = AddStep(@, StepOpenLoop(st.next_loop_id)),
                    !.loop_stack = Append(@, st.next_loop_id),
                    !.next_loop_id = @ + 1]
    ELSE IF item.head = "]"
    THEN AddCloseItem(st, idx, item)
    ELSE AddJsonItem(st, idx, item)

RECURSIVE ScanPattern(_, _, _)
ScanPattern(p, idx, st) ==
    IF idx >= Len(p) \/ st.error # None
    THEN st
    ELSE ScanPattern(p, idx + 1, AddItem(st, idx, p[idx + 1]))

\* The result: ok with the steps, or the raised error.
create_from_pattern(p) ==
    LET st == ScanPattern(p, 0, CompileStart)
        error == IF st.error # None THEN st.error
                 ELSE IF Len(st.loop_stack) > 0
                      THEN Error("not_closed", UnclosedErrorEntry(st.loop_stack))
                      ELSE None
    IN  [ok |-> error = None,
         steps |-> IF error = None THEN st.steps ELSE <<>>,
         loops_forever |-> error = None /\ st.loops_forever,
         color |-> IF st.initial_color = None THEN OffColor ELSE Val(st.initial_color),
         error |-> error]

NoSequence ==
    [ok |-> FALSE, steps |-> <<>>, loops_forever |-> FALSE, color |-> OffColor,
     error |-> None]

----------------------------------------------------------------------------
(* Running a sequence.  workspace.data maps a loop id to its _LoopInfo;    *)
(* an id with no record maps to None.                                      *)

LoopIds == 1..(MaxPatternLen + 1)

NewWorkspace(color) ==
    [next_idx |-> 0, data |-> [id \in LoopIds |-> None], color |-> color]

LoopInfo(open_idx, loop_cnt) == [open_idx |-> open_idx, loop_cnt |-> loop_cnt]

\* _StepSetColor.execute
StepSetColor_execute(ws, step) == [ws EXCEPT !.color = step.color]

\* _StepDelay.execute: only time passes
StepDelay_execute(ws, step) == ws

\* _StepOpenLoop.execute
StepOpenLoop_execute(ws, step) ==
    IF ws.data[step.loop_id] # None
    THEN ws
    ELSE [ws EXCEPT !.data[step.loop_id] = Some(LoopInfo(step.idx, 0))]

\* faulty variant: the loop is never left
LoopContinues_Always(total_repeats, loop_cnt) == TRUE

\* if self._total_repeats < 0 or info.loop_cnt <= self._total_repeats
LoopContinues(total_repeats, loop_cnt) == total_repeats < 0 \/ loop_cnt <= total_repeats

\* faulty variant: a loop that is left keeps its record
StepCloseLoop_execute_KeepsRecord(ws, step) ==
    LET info == Val(ws.data[step.loop_id])
        loop_cnt == info.loop_cnt + 1
    IN  IF LoopContinues(step.total_repeats, loop_cnt)
        THEN [ws EXCEPT !.data[step.loop_id] = Some(LoopInfo(info.open_idx, loop_cnt)),
                        !.next_idx = info.open_idx]
        ELSE [ws EXCEPT !.data[step.loop_id] = Some(LoopInfo(info.open_idx, loop_cnt))]

\* _StepCloseLoop.execute (the loop record exists: see LoopRecordPresent)
StepCloseLoop_execute(ws, step) ==
    LET info == Val(ws.data[step.loop_id])
        loop_cnt == info.loop_cnt + 1
    IN  IF LoopContinues(step.total_repeats, loop_cnt)
        THEN [ws EXCEPT !.data[step.loop_id] = Some(LoopInfo(info.open_idx, loop_cnt)),
                        !.next_idx = info.open_idx]
        ELSE [ws EXCEPT !.data[step.loop_id] = None]

Execute(ws, step) ==
    CASE step.op = "SetColor" -> StepSetColor_execute(ws, step)
      [] step.op = "Delay" -> StepDelay_execute(ws, step)
      [] step.op = "OpenLoop" -> StepOpenLoop_execute(ws, step)
      [] step.op = "CloseLoop" -> StepCloseLoop_execute(ws, step)

\* faulty variant: a call past the end reports not done
DoneAtEnd_NotDone == FALSE

\* what runNextStep returns when next_idx is already past the last step
DoneAtEnd == TRUE

\* LightSequence.runNextStep: the workspace after the call and the returned value
runNextStep(steps, ws) ==
    IF ws.next_idx >= Len(steps)
    THEN [ws |-> ws, done |-> DoneAtEnd]
    ELSE LET next_step == steps[ws.next_idx + 1]
             after == Execute([ws EXCEPT !.next_idx = @ + 1], next_step)
         IN  [ws |-> after, done |-> after.next_idx >= Len(steps)]

\* the interpreter as the other specifications leave it
SeqIdle ==
    /\ pattern = <<>>
    /\ phase = "idle"
    /\ sequence = NoSequence
    /\ workspace = NewWorkspace(OffColor)
    /\ calls = 0
    /\ rets = <<>>
    /\ set_trace = <<>>

----------------------------------------------------------------------------
(* WrappedLightState.  A state object of the wrapped light is its state    *)
(* string and its attributes; attrs[k] = None stands for a key that is     *)
(* absent or maps to None (the tracker reads attributes with .get only).   *)

NoAttrs ==
    [brightness |-> None, color_mode |-> None, rgb_color |-> None,
     hs_color |-> None, xy_color |-> None, color_temp |-> None]

\* WrappedLightState.__init__
NewWrappedLightState == [state |-> None, attrs |-> NoAttrs, frozen |-> FALSE]

is_on(ws) == ws.state = Some("on")
has_state(ws) == ws.state # None
is_frozen(ws) == ws.frozen

\* faulty variant: update does not look at the frozen flag
update_IgnoresFrozen(ws, state) ==
    [ws EXCEPT !.state = Some(state.state), !.attrs = state.attributes]

\* WrappedLightState.update
update(ws, state) ==
    IF ws.frozen THEN ws
    ELSE [ws EXCEPT !.state = Some(state.state), !.attrs = state.attributes]

\* WrappedLightState.freeze
freeze(ws) == [ws EXCEPT !.frozen = TRUE]

\* WrappedLightState.unfreeze
unfreeze(ws) == [ws EXCEPT !.frozen = FALSE]

COLOR_TEMP_MODES == {"color_temp"}
XY_MODES == {"xy"}
HS_MODES == {"hs"}
RGB_MODES == {"rgb", "rgbw", "rgbww"}

InModes(color_mode, modes) == color_mode # None /\ Val(color_mode) \in modes

\* the for loop over ("rgb_color", "hs_color", "xy_color", "color_temp")
RECURSIVE FirstPresent(_, _)
FirstPresent(attrs, names) ==
    IF names = <<>> THEN None
    ELSE IF attrs[Head(names)] # None THEN Some(Head(names))
    ELSE FirstPresent(attrs, Tail(names))

\* faulty variant: no fall back to hs_color
XyColorAttr_NoFallback(attrs) == Some("xy_color")

\* the xy branch: prefer xy_color, fall back to hs_color
XyColorAttr(attrs) ==
    IF attrs.xy_color # None THEN Some("xy_color")
    ELSE IF attrs.hs_color # None THEN Some("hs_color")
    ELSE None

\* WrappedLightState._color_attr_for_mode
color_attr_for_mode(attrs, color_mode) ==
    IF InModes(color_mode, COLOR_TEMP_MODES) THEN Some("color_temp")
    ELSE IF InModes(color_mode, XY_MODES) THEN XyColorAttr(attrs)
    ELSE IF InModes(color_mode, HS_MODES) THEN Some("hs_color")
    ELSE IF InModes(color_mode, RGB_MODES) THEN Some("rgb_color")
    ELSE FirstPresent(attrs, <<"rgb_color", "hs_color", "xy_color", "color_temp">>)

\* brightness = self._attrs.get("brightness"); if brightness is not None: ...
BrightnessKeys(attrs) == IF attrs.brightness # None THEN {"brightness"} ELSE {}

\* WrappedLightState.restore_params: the mapping, as a function on its keys
restore_params(ws) ==
    IF ~is_on(ws) THEN [k \in {} |-> None]
    ELSE LET color_attr == color_attr_for_mode(ws.attrs, ws.attrs.color_mode)
             color_keys == IF color_attr # None /\ ws.attrs[Val(color_attr)] # None
                           THEN {Val(color_attr)}
                           ELSE {}
         IN  [k \in BrightnessKeys(ws.attrs) \cup color_keys |-> Val(ws.attrs[k])]

\* The state objects the wrapped light reports.
LightState(state, attributes) == [state |-> state, attributes |-> attributes]

ColorModes == {"color_temp", "xy", "hs", "rgb", "rgbw", "rgbww", "onoff"}

LightStates ==
    {LightState(st, [brightness |-> b, color_mode |-> m, rgb_color |-> rgb,
                     hs_color |-> hs, xy_color |-> xy, color_temp |-> ct]) :
        st \in {"on", "off", "unavailable"},
        b \in {None, Some(0), Some(150)},
        m \in {None} \cup {Some(c) : c \in ColorModes},
        rgb \in {None, Some(<<255, 0, 0>>)},
        hs \in {None, Some(<<30, 80>>)},
        xy \in {None, Some(<<3, 4>>)},
        ct \in {None, Some(370)}}

\* the tracker as the other specifications leave it
TrackerIdle ==
    /\ wrapped_state = NewWrappedLightState
    /\ last_accepted = LightState("", NoAttrs)
    /\ last_call = "none"

----------------------------------------------------------------------------
(* The notification light entity (light.py).  Priorities are kept in       *)
(* halves, so that the +0.5 of a dynamic priority is an integer step:      *)
(* Halves(p) stands for the Python number p.                               *)

DEFAULT_PRIORITY == 1000
MAXIMUM_PRIORITY == 99999999

Halves(p) == 2 * p

STATE_OFF == "off"
STATE_ON == "on"
CONF_ADD == "add"
CONF_DELETE == "delete"
ACTION_CYCLE_SAME == "cycle_same"

\* the notification entities the light subscribes to
NotifyIds == {"n1", "n2"}

\* ColorInfo(rgb=...): the dataclass defaults for the other fields
ColorOfRgb(rgb) == ColorInfo(rgb, DefaultBrightness, None, None, None)

\* ColorInfo.light_params, as a function on its keys
light_params(color) ==
    LET color_keys == IF color.kelvin # None THEN {"color_temp_kelvin"}
                      ELSE {"rgb_color"}
        transition_keys == IF color.transition # None THEN {"transition"} ELSE {}
        brightness_keys == IF color.explicit_brightness # None
                           THEN {"brightness"} ELSE {}
    IN  [k \in color_keys \cup transition_keys \cup brightness_keys |->
            CASE k = "color_temp_kelvin" -> Val(color.kelvin)
              [] k = "rgb_color" -> color.rgb
              [] k = "transition" -> Val(color.transition)
              [] k = "brightness" -> Val(color.explicit_brightness)]

\* _NotificationSequence.__init__ and reset(): the pattern is compiled, the
\* color is the first color of the pattern.  is_running is what is_running()
\* returns: the animation task has been started, has not returned and its
\* stop event is not set.
NotificationSequence(pat, priority, notify_id, clear_delay, peek_enabled) ==
    LET made == create_from_pattern(pat)
    IN  [priority |-> priority,
         notify_id |-> notify_id,
         clear_delay |-> clear_delay,
         peek_enabled |-> peek_enabled,
         loops_forever |-> made.loops_forever,
         color |-> made.color,
         is_running |-> FALSE]

LIGHT_OFF_SEQUENCE ==
    NotificationSequence(<<ItemColorInfo(OffColor)>>, Halves(0),
                         Some(STATE_OFF), None, TRUE)

\* _NotificationSequence.is_running
is_running(seq) == seq.is_running

\* _NotificationSequence.run: a fresh stop event and a fresh task
run(seq) == [seq EXCEPT !.is_running = TRUE]

\* _NotificationSequence.stop: the stop event is set
stop(seq) == [seq EXCEPT !.is_running = FALSE]

\* _QueueEntry
QueueEntry(action, notify_id, seq) ==
    [action |-> action, notify_id |-> notify_id, sequence |-> seq]

\* what _wake_loop puts on the queue
WakeEntry == QueueEntry(None, None, None)

----------------------------------------------------------------------------
(* The Active Set is an ordered mapping: a list of entries, one per key.   *)
(* The Running Set maps a notify_id to a sequence object that is either    *)
(* the very object the Active Set holds under that key (same) or an object *)
(* the Active Set no longer holds (seq is that object).                    *)

\* the number of events (notification changes, service calls on the light,
\* state changes of the wrapped light) one run takes in
MaxEvents == 2

Entry(key, seq) == [key |-> key, seq |-> seq]

KeysOf(dict) == {dict[i].key : i \in DOMAIN dict}

IndexOf(dict, key) == CHOOSE i \in DOMAIN dict : dict[i].key = key

\* dict[key] for a key of the ordered mapping
Lookup(dict, key) == dict[IndexOf(dict, key)].seq

\* dict[key] = seq: a key that is present keeps its place, a new key goes last
DictSet(dict, key, seq) ==
    IF key \in KeysOf(dict)
    THEN [i \in DOMAIN dict |-> IF dict[i].key = key THEN Entry(key, seq) ELSE dict[i]]
    ELSE Append(dict, Entry(key, seq))

\* faulty variant: the last entry goes with the popped one
DictPop_AlsoLast(dict, key) ==
    LET kept == SelectSeq(dict, LAMBDA e : e.key # key)
    IN  SubSeq(kept, 1, Len(kept) - 1)

\* dict.pop(key)
DictPop(dict, key) == SelectSeq(dict, LAMBDA e : e.key # key)

\* the object under a key of the ordered mapping is changed in place
Mutate(dict, key, seq) ==
    [i \in DOMAIN dict |-> IF dict[i].key = key THEN Entry(key, seq) ELSE dict[i]]

\* an entry of the Running Set
Running(key, same, seq) == [key |-> key, same |-> same, seq |-> seq]

\* the entry for the object the Active Set holds under key
RunningSame(key) == Running(key, TRUE, None)

\* the object a Running Set entry holds
RunningSeq(r, act) == IF r.same THEN Lookup(act, r.key) ELSE r.seq

\* faulty variant: the sort key is the priority itself
SortKey_Ascending(priority) == priority

\* key=lambda item: -item[1].priority
SortKey(priority) == 0 - priority

\* sorted() is stable: an item goes after every item whose key is not larger
InsertByKey(sorted, e) ==
    LET k == Cardinality({i \in DOMAIN sorted :
                 SortKey(sorted[i].seq.priority) <= SortKey(e.seq.priority)})
    IN  SubSeq(sorted, 1, k) \o <<e>> \o SubSeq(sorted, k + 1, Len(sorted))

RECURSIVE SortedFrom(_, _)
SortedFrom(dict, sorted) ==
    IF dict = <<>> THEN sorted
    ELSE SortedFrom(Tail(dict), InsertByKey(sorted, Head(dict)))

\* _sort_active_sequences
sort_active_sequences(act) == SortedFrom(act, <<>>)

\* faulty variant: an entry of equal priority ends the scan
TopScanEnds_OnEqual(priority, top_prio) == priority <= top_prio

\* if sequence.priority < top_prio: break
TopScanEnds(priority, top_prio) == priority < top_prio

RECURSIVE TopScan(_, _, _)
TopScan(act, top_prio, ret) ==
    IF act = <<>> THEN ret
    ELSE LET priority == Head(act).seq.priority
         IN  IF TopScanEnds(priority, top_prio) THEN ret
             ELSE TopScan(Tail(act), priority, Append(ret, Head(act)))

\* _get_top_sequences: the top sequences, each with its key, in Active Set
\* order
get_top_sequences(act) == TopScan(act, Halves(0), <<>>)

\* the for loop of the ACTION_CYCLE_SAME branch over the entries after the top
RECURSIVE CycleScan(_, _, _, _)
CycleScan(rest, top, top_prio, new_dict) ==
    IF rest = <<>> THEN new_dict
    ELSE LET it == Head(rest)
             drops == top_prio > it.seq.priority
             with_top == IF drops THEN DictSet(new_dict, top.key, top.seq) ELSE new_dict
         IN  CycleScan(Tail(rest), top,
                       IF drops THEN Halves(-1) ELSE top_prio,
                       DictSet(with_top, it.key, it.seq))

\* faulty variant: a Cycle command leaves the Active Set as it is
CycleSame_KeepsOrder(act) == act

\* the ACTION_CYCLE_SAME branch of _work_loop
CycleSame(act) ==
    IF act = <<>> THEN act
    ELSE IF Head(act).key = STATE_OFF THEN act
    ELSE CycleScan(Tail(act), Head(act), Head(act).seq.priority, <<>>)

----------------------------------------------------------------------------
(* Configuration and inputs of one light.                                  *)

\* config_entry.data and config_entry.options, as the entity reads them:
\* peek_duration and cycle_delay are what _work_loop makes of CONF_PEEK_TIME,
\* CONF_DELAY and CONF_DELAY_TIME
Config(restore_power, dynamic_priority, peek_duration, cycle_delay) ==
    [restore_power |-> restore_power,
     dynamic_priority |-> dynamic_priority,
     light_on_priority |-> Halves(DEFAULT_PRIORITY),
     rgb |-> WARM_WHITE_RGB,
     peek_duration |-> peek_duration,
     cycle_delay |-> cycle_delay]

Configs == {Config(FALSE, TRUE, 5, Some(10)), Config(TRUE, FALSE, 0, Some(10))}

\* the attributes of a notification entity that is on; None is a missing key
NotifyAttributes(pat, priority, expire_enabled, delay_time, peek_enabled) ==
    [pattern |-> pat, rgb |-> None, priority |-> priority,
     expire_enabled |-> expire_enabled, delay_time |-> delay_time,
     peek_enabled |-> peek_enabled]

ForeverPattern ==
    <<ItemOpen, KelvinDelay, ItemColorInfo(Red), ItemClose(<<>>)>>

\* what each notification entity may carry when it turns on
NotifyAttrs(n) ==
    IF n = "n1"
    THEN {NotifyAttributes(None, None, FALSE, None, None)}
    ELSE {NotifyAttributes(Some(ForeverPattern), Some(Halves(DEFAULT_PRIORITY)),
                           FALSE, None, Some(FALSE)),
          NotifyAttributes(Some(<<ItemColorInfo(Red)>>), Some(Halves(500)),
                           TRUE, Some(0), Some(TRUE))}

\* _create_sequence_from_attr
create_sequence_from_attr(attributes, notify_id) ==
    LET pat == IF attributes.pattern # None /\ Val(attributes.pattern) # <<>>
               THEN Val(attributes.pattern)
               ELSE <<ItemColorInfo(ColorOfRgb(
                        IF attributes.rgb # None THEN Val(attributes.rgb)
                        ELSE WARM_WHITE_RGB))>>
        expire_time == IF attributes.expire_enabled THEN attributes.delay_time
                       ELSE None
        priority == IF attributes.priority # None THEN Val(attributes.priority)
                    ELSE Halves(DEFAULT_PRIORITY)
        peek_enabled == IF attributes.peek_enabled # None
                        THEN Val(attributes.peek_enabled) ELSE TRUE
    IN  NotificationSequence(pat, priority, Some(notify_id), expire_time, peek_enabled)

\* replace(LIGHT_ON_SEQUENCE, pattern=[ColorInfo(rgb=rgb)], priority=priority)
LightOnSequence(rgb, priority) ==
    NotificationSequence(<<ItemColorInfo(ColorOfRgb(rgb))>>, priority, None, None, TRUE)

\* the states the wrapped light reports to this light
EntityLightStates ==
    {LightState("on", [NoAttrs EXCEPT !.brightness = Some(150),
                                      !.color_mode = Some("xy"),
                                      !.hs_color = Some(<<30, 80>>)]),
     LightState("off", NoAttrs)}

\* issued is what the latest recompute pass sent: "restore", "color" or "none"
NoService ==
    [service |-> "none", params |-> [k \in {} |-> None], issued |-> "none"]

\* NotificationLightEntity.__init__ for the config entry cfg
NewEntity(cfg) ==
    /\ config = cfg
    /\ active = <<>>
    /\ running = {}
    /\ task_queue = <<>>
    /\ peek_timers = <<>>
    /\ cycle_canceler = FALSE
    /\ last_set_color = None
    /\ startup_quiet = ~cfg.restore_power
    /\ wrapped_init_done = FALSE
    /\ response_expected = FALSE
    /\ events = 0
    /\ last_service = NoService

\* async_turn_on is not called with color arguments
TurnOnIdle ==
    /\ last_on_rgb = None
    /\ turn_on_log = <<>>

\* no _work_loop has been started
NoReads == [q_task |-> "none", orphans |-> 0]

\* no queue read is followed and no animation task exists
TaskIdle ==
    /\ q_reads = NoReads
    /\ anim_task = None

\* no function is called on its own
FuncIdle ==
    /\ interp = None
    /\ TurnOnIdle
    /\ TaskIdle

\* _get_top_sequences and the Cycle branch are not exercised on their own
PureIdle ==
    /\ top_sequences = None
    /\ cycle_trace = <<>>
    /\ lights = <<>>
    /\ off_sequence = None
    /\ FuncIdle

\* the entity as the other specifications leave it
SchedIdle ==
    /\ NewEntity(Config(FALSE, TRUE, 0, None))
    /\ setup = "idle"
    /\ pc = "idle"
    /\ PureIdle

----------------------------------------------------------------------------
(* SpecTracker: any sequence of update, freeze and unfreeze calls.         *)

InitTracker ==
    /\ SeqIdle
    /\ SchedIdle
    /\ wrapped_state = NewWrappedLightState
    /\ last_accepted = LightState("", NoAttrs)
    /\ last_call = "none"

Update ==
    \E state \in LightStates :
        /\ wrapped_state' = update(wrapped_state, state)
        /\ last_accepted' = IF wrapped_state.frozen THEN last_accepted ELSE state
        /\ last_call' = "update"
        /\ UNCHANGED <<seqVars, schedVars, pureVars>>

Freeze ==
    /\ wrapped_state' = freeze(wrapped_state)
    /\ last_call' = "freeze"
    /\ UNCHANGED <<last_accepted, seqVars, schedVars, pureVars>>

Unfreeze ==
    /\ wrapped_state' = unfreeze(wrapped_state)
    /\ last_call' = "unfreeze"
    /\ UNCHANGED <<last_accepted, seqVars, schedVars, pureVars>>

NextTracker == Update \/ Freeze \/ Unfreeze

SpecTracker == InitTracker /\ [][NextTracker]_vars

\* what a tracker holds that has just accepted the state object s
TrackerOf(s) ==
    [state |-> IF s.state = "" THEN None ELSE Some(s.state),
     attrs |-> s.attributes, frozen |-> FALSE]

\* C7: for any sequence of update, freeze and unfreeze calls, is_on and
\* restore_params equal the values derived from the most recent update
\* received while the tracker was not frozen; an update received while frozen
\* changes nothing, and freeze on a frozen tracker changes nothing.
C7_FrozenKeepsLastAccepted ==
    /\ [](/\ is_on(wrapped_state) <=> last_accepted.state = "on"
          /\ restore_params(wrapped_state) = restore_params(TrackerOf(last_accepted))
          /\ has_state(wrapped_state) <=> last_accepted.state # "")
    /\ [][(wrapped_state.frozen /\ last_call' \in {"update", "freeze"})
            => wrapped_state' = wrapped_state]_vars

C7_Witness ==
    /\ wrapped_state.frozen
    /\ last_call = "update"
    /\ is_on(wrapped_state)
    /\ DOMAIN restore_params(wrapped_state) = {"brightness", "color_temp"}

\* the color attributes a color mode is restored from, in order of preference
ColorCandidates(color_mode) ==
    CASE color_mode = Some("color_temp") -> <<"color_temp">>
      [] color_mode = Some("xy") -> <<"xy_color", "hs_color">>
      [] color_mode = Some("hs") -> <<"hs_color">>
      [] color_mode \in {Some("rgb"), Some("rgbw"), Some("rgbww")} -> <<"rgb_color">>
      [] OTHER -> <<"rgb_color", "hs_color", "xy_color", "color_temp">>

\* the first candidate whose tracked value is not None, if any
ChosenColorKeys(attrs) ==
    LET cand == ColorCandidates(attrs.color_mode)
        present == {i \in DOMAIN cand : attrs[cand[i]] # None}
    IN  IF present = {} THEN {} ELSE {cand[Min(present)]}

\* C8: restore_params is empty whenever the tracked state is not 'on'; when
\* it is 'on' it holds brightness iff the tracked brightness is not None, plus
\* at most one color attribute chosen by color_mode, and never an attribute
\* whose tracked value is None.
C8_RestoreParams ==
    LET params == restore_params(wrapped_state)
        attrs == wrapped_state.attrs
    IN  /\ ~is_on(wrapped_state) => DOMAIN params = {}
        /\ is_on(wrapped_state) =>
            /\ "brightness" \in DOMAIN params <=> attrs.brightness # None
            /\ DOMAIN params \ {"brightness"} = ChosenColorKeys(attrs)
            /\ Cardinality(DOMAIN params \ {"brightness"}) <= 1
            /\ \A k \in DOMAIN params : attrs[k] # None /\ params[k] = Val(attrs[k])

C8_Witness ==
    /\ is_on(wrapped_state)
    /\ wrapped_state.attrs.color_mode = Some("xy")
    /\ wrapped_state.attrs.xy_color = None
    /\ wrapped_state.attrs.brightness = Some(0)
    /\ DOMAIN restore_params(wrapped_state) = {"brightness", "hs_color"}

----------------------------------------------------------------------------
(* SpecSeq: a pattern is compiled, then stepped.                           *)

InitSeq ==
    /\ TrackerIdle
    /\ SchedIdle
    /\ pattern \in Patterns
    /\ phase = "new"
    /\ sequence = NoSequence
    /\ workspace = NewWorkspace(OffColor)
    /\ calls = 0
    /\ rets = <<>>
    /\ set_trace = <<>>

CreateFromPattern ==
    /\ phase = "new"
    /\ LET made == create_from_pattern(pattern)
       IN  /\ sequence' = made
           /\ phase' = IF made.ok THEN "compiled" ELSE "failed"
           /\ workspace' = NewWorkspace(made.color)
    /\ UNCHANGED <<pattern, calls, rets, set_trace>>
    /\ UNCHANGED <<trackerVars, schedVars, pureVars>>

\* one call of runNextStep on the compiled sequence
RunNextStepBody ==
    /\ phase = "compiled"
    /\ LET r == runNextStep(sequence.steps, workspace)
           ran == workspace.next_idx < Len(sequence.steps)
           step == sequence.steps[workspace.next_idx + 1]
       IN  /\ workspace' = r.ws
           /\ rets' = Append(rets, r.done)
           /\ set_trace' = IF ran /\ step.op = "SetColor"
                           THEN Append(set_trace, r.ws.color)
                           ELSE set_trace
    /\ calls' = calls + 1
    /\ UNCHANGED <<pattern, phase, sequence>>
    /\ UNCHANGED <<trackerVars, schedVars, pureVars>>

RunNextStep ==
    /\ calls < MaxCalls
    /\ RunNextStepBody

NextSeq == CreateFromPattern \/ RunNextStep

SpecSeq == InitSeq /\ [][NextSeq]_vars

----------------------------------------------------------------------------
(* Properties of the interpreter (checked under SpecSeq).                  *)

IsOpen(item) == item.kind = "str" /\ item.head = "["
IsClose(item) == item.kind = "str" /\ item.head = "]"
IsMarker(item) == IsOpen(item) \/ IsClose(item)

\* every item that is not a loop marker describes a color step
WellFormedItems(p) == \A i \in DOMAIN p : IsMarker(p[i]) \/ p[i] \in ColorItems

\* loops open after item i: opens minus closes among the first i items
Depth(p, i) ==
    Cardinality({k \in 1..i : IsOpen(p[k])}) - Cardinality({k \in 1..i : IsClose(p[k])})

\* no close marker occurs while no loop is open
NoStrayClose(p) == \A i \in DOMAIN p : Depth(p, i) >= 0

Balanced(p) == NoStrayClose(p) /\ Depth(p, Len(p)) = 0

\* the positions of the "[" items that no later "]" closes
UnclosedOpens(p) ==
    {i \in DOMAIN p : IsOpen(p[i]) /\ \A j \in i..Len(p) : Depth(p, j) >= Depth(p, i)}

\* the positions of the "]" items met while no loop is open
StrayCloses(p) ==
    {i \in DOMAIN p : IsClose(p[i]) /\ Depth(p, i - 1) = 0
                      /\ \A k \in 1..(i - 1) : Depth(p, k) >= 0}

Compiled == phase = "compiled"
Failed == phase = "failed"

\* runNextStep has returned done
ReturnedDone == Compiled /\ rets # <<>> /\ Last(rets)

\* the pattern ["[", X, "],N"]
LoopPattern(x, n) == <<ItemOpen, x, ItemClose(<<n>>)>>

\* C1: for every N >= 1 and color X, running the compiled pattern
\* ["[", X, "],N"] until runNextStep returns done executes the SetColor step
\* for X exactly N times.
C1_LoopSetsColorNTimes ==
    \A x \in ColorItems, n \in 1..MaxRepeat :
        (pattern = LoopPattern(x, n) /\ ReturnedDone) => Len(set_trace) = n

\* C2: a pattern with an unclosed "[" fails to compile and the error names
\* the 1-based position of the first unclosed "[" (stated for the patterns
\* in which nothing else is wrong: color steps are well formed and no "]"
\* is met while no loop is open).
C2_UnclosedNamesPosition ==
    (phase # "new" /\ WellFormedItems(pattern) /\ NoStrayClose(pattern)
        /\ UnclosedOpens(pattern) # {})
    => (Failed /\ sequence.error = Error("not_closed", Min(UnclosedOpens(pattern))))

\* C3: a pattern (of loop markers and color steps) in which a "]" is met
\* while no loop is open fails to compile, yields no sequence, and the error
\* names the 1-based position of that close marker.
C3_StrayCloseNamesPosition ==
    (phase # "new" /\ WellFormedItems(pattern) /\ StrayCloses(pattern) # {})
    => (/\ Failed
        /\ ~sequence.ok
        /\ sequence.steps = <<>>
        /\ sequence.error = Error("no_open_loop", Min(StrayCloses(pattern))))

C3_Witness ==
    /\ Failed
    /\ WellFormedItems(pattern)
    /\ StrayCloses(pattern) # {}
    /\ Min(StrayCloses(pattern)) = 4
    /\ IsOpen(pattern[1])

\* a close marker without a repeat count, or with a negative one
ClosesForever(item) == IsClose(item) /\ (item.parts = <<>> \/ item.parts[1] < 0)

\* C4: a pattern whose loop markers are balanced and properly nested compiles,
\* and loops_forever is true iff some close marker has no repeat count or a
\* negative one.
C4_BalancedCompiles ==
    (phase # "new" /\ WellFormedItems(pattern) /\ Balanced(pattern))
    => (/\ Compiled
        /\ sequence.ok
        /\ sequence.loops_forever <=> \E i \in DOMAIN pattern : ClosesForever(pattern[i]))

C4_Witness ==
    /\ Compiled
    /\ Len(pattern) = 4
    /\ pattern[4] = ItemClose(<<0>>)
    /\ pattern[2] = ItemClose(<<-1>>)
    /\ sequence.loops_forever

\* C5: once runNextStep has returned done, every later call returns done
\* again and changes neither the color, nor next_idx, nor the loop records.
C5_DoneIsIdempotent ==
    [][(ReturnedDone /\ calls' = calls + 1)
        => (Last(rets') /\ workspace' = workspace)]_vars

C5_Witness ==
    /\ Compiled
    /\ Len(rets) >= 2
    /\ rets[Len(rets) - 1]
    /\ Last(rets)
    /\ \E i \in DOMAIN pattern : IsClose(pattern[i])

NoMarkers(p) == \A i \in DOMAIN p : ~IsMarker(p[i])

\* the color of a color item: rgb wins over kelvin when both are given
ItemColor(item) ==
    IF item.kind = "ColorInfo" THEN item.color
    ELSE IF item.dict.rgb # None
         THEN ColorInfo(Val(item.dict.rgb), DefaultBrightness, None,
                        item.dict.transition, item.dict.brightness)
         ELSE ColorInfo(WARM_WHITE_RGB, DefaultBrightness, item.dict.kelvin,
                        item.dict.transition, item.dict.brightness)

HasDelay(item) ==
    item.kind = "str" /\ item.dict.delay # None /\ Val(item.dict.delay) # 0

\* what a step does, without its index
StepView(step) == [op |-> step.op, color |-> step.color, delay |-> step.delay]

\* one SetColor per item, followed by a Delay when the item has a non-zero delay
RECURSIVE ExpectedSteps(_)
ExpectedSteps(p) ==
    IF p = <<>> THEN <<>>
    ELSE LET item == Head(p)
             set == <<[op |-> "SetColor", color |-> ItemColor(item), delay |-> 0]>>
             wait == IF HasDelay(item)
                     THEN <<[op |-> "Delay", color |-> OffColor,
                             delay |-> Val(item.dict.delay)]>>
                     ELSE <<>>
         IN  set \o wait \o ExpectedSteps(Tail(p))

IsPrefix(s, t) == Len(s) <= Len(t) /\ \A i \in DOMAIN s : s[i] = t[i]

\* C6: a pattern without loop markers compiles to one SetColor per color item,
\* in pattern order, each followed by a Delay exactly when the item has a
\* non-zero delay; a run sets the color to each item's color once, in pattern
\* order, and done is first returned by the call that executes the last step.
C6_StraightLinePattern ==
    (phase # "new" /\ WellFormedItems(pattern) /\ NoMarkers(pattern))
    => (/\ Compiled
        /\ [i \in DOMAIN sequence.steps |-> StepView(sequence.steps[i])]
               = ExpectedSteps(pattern)
        /\ \A i \in DOMAIN sequence.steps : sequence.steps[i].idx = i - 1
        /\ \A k \in DOMAIN rets : rets[k] <=> k >= Len(sequence.steps)
        /\ IsPrefix(set_trace, [i \in DOMAIN pattern |-> ItemColor(pattern[i])])
        /\ set_trace # <<>> => workspace.color = Last(set_trace)
        /\ ReturnedDone => Len(set_trace) = Len(pattern))

C6_Witness ==
    /\ ReturnedDone
    /\ Len(pattern) = 3
    /\ NoMarkers(pattern)
    /\ HasDelay(pattern[2])
    /\ pattern[3] = GreenNoDelay
    /\ Len(rets) = 4
    /\ ~rets[3]

----------------------------------------------------------------------------
(* Spec: one NotificationLightEntity.  The event handlers put commands on  *)
(* the queue, the timers fire, the animations step, and the worker loop    *)
(* alternates between _process_sequence_list and waiting for a command or  *)
(* an animation step.                                                      *)

RunningKeys(runs) == {r.key : r \in runs}

\* an event handler runs
Event ==
    /\ events < MaxEvents
    /\ events' = events + 1

Subscribed == setup \in {"added", "restored"}

\* the result of a call on the wrapped light: ok is the value returned,
\* sent tells whether a service call was made
CallResult(ok, sent, service, params) ==
    [ok |-> ok, sent |-> sent, call |-> [service |-> service, params |-> params]]

\* faulty variant: the startup quiet period is not looked at
wrapped_light_turn_off_NotQuiet ==
    IF ~wrapped_init_done
    THEN CallResult(FALSE, FALSE, "none", [k \in {} |-> None])
    ELSE CallResult(TRUE, TRUE, "turn_off", [k \in {} |-> None])

\* _wrapped_light_turn_off
wrapped_light_turn_off ==
    IF startup_quiet THEN CallResult(TRUE, FALSE, "none", [k \in {} |-> None])
    ELSE IF ~wrapped_init_done
         THEN CallResult(FALSE, FALSE, "none", [k \in {} |-> None])
         ELSE CallResult(TRUE, TRUE, "turn_off", [k \in {} |-> None])

\* _wrapped_light_turn_on, for a wrapped light that supports ColorMode.RGB
wrapped_light_turn_on(params) ==
    IF "rgb_color" \in DOMAIN params /\ params["rgb_color"] = OFF_RGB
    THEN wrapped_light_turn_off
    ELSE IF startup_quiet THEN CallResult(TRUE, FALSE, "none", [k \in {} |-> None])
    ELSE IF ~wrapped_init_done
         THEN CallResult(FALSE, FALSE, "none", [k \in {} |-> None])
         ELSE CallResult(TRUE, TRUE, "turn_on", params)

\* faulty variant: the restore reports success without a call
restore_wrapped_light_NeverFails == CallResult(TRUE, FALSE, "none", [k \in {} |-> None])

\* faulty variant: the restore turns the wrapped light off whatever was tracked
restore_wrapped_light_AlwaysOff == wrapped_light_turn_off

\* _restore_wrapped_light
restore_wrapped_light ==
    IF is_on(wrapped_state) THEN wrapped_light_turn_on(restore_params(wrapped_state))
    ELSE wrapped_light_turn_off

\* a service call restarts the window in which a state change is expected
AfterCall(r, kind) ==
    /\ last_service' = IF r.sent
                       THEN [service |-> r.call.service, params |-> r.call.params,
                             issued |-> kind]
                       ELSE [last_service EXCEPT !.issued = "none"]
    /\ response_expected' = (r.sent \/ response_expected)

\* a command that changes the Active Set, or a reset of the running
\* sequences, ends the standing of what the latest pass sent
Superseded == [last_service EXCEPT !.issued = "none"]

\* the loop that starts the top sequences that are not running yet
RECURSIVE StartTops(_, _, _)
StartTops(tops, act, runs) ==
    IF tops = <<>> THEN [act |-> act, runs |-> runs]
    ELSE LET top == Head(tops)
             nid == top.seq.notify_id
         IN  IF nid # None /\ Val(nid) \notin RunningKeys(runs)
             THEN StartTops(Tail(tops), Mutate(act, top.key, run(top.seq)),
                            runs \cup {RunningSame(Val(nid))})
             ELSE StartTops(Tail(tops), act, runs)

\* remove_list: running entries that are not active or below the top priority
RemoveList(runs, act, top_priority) ==
    {r \in runs : r.key \notin KeysOf(act) \/ RunningSeq(r, act).priority < top_priority}

\* anim.stop() for every entry of runs: an object the Active Set holds is
\* stopped there
StopAll(act, runs) ==
    [i \in DOMAIN act |->
        IF RunningSame(act[i].key) \in runs THEN Entry(act[i].key, stop(act[i].seq))
        ELSE act[i]]

\* the cycle timer is set up when none is pending and more than one runs
ScheduleCycle(runs) ==
    cycle_canceler' = (cycle_canceler \/
                       (config.cycle_delay # None /\ Cardinality(runs) > 1))

InitEntity ==
    /\ SeqIdle
    /\ TrackerIdle
    /\ \E cfg \in Configs : NewEntity(cfg)
    /\ PureIdle
    /\ setup = "new"
    /\ pc = "idle"

\* async_added_to_hass up to the wait for the last state: base off is put
\* in, the worker is spawned, the state of the wrapped light is read
AddedToHass ==
    /\ setup = "new"
    /\ setup' = "added"
    /\ active' = DictSet(active, STATE_OFF, LIGHT_OFF_SEQUENCE)
    /\ pc' = "process"
    /\ \E state \in {None} \cup {Some(s) : s \in EntityLightStates} :
         IF state # None
         THEN /\ wrapped_state' = update(wrapped_state, Val(state))
              /\ last_accepted' = Val(state)
              /\ last_call' = "update"
              /\ wrapped_init_done' = TRUE
              /\ task_queue' = Append(task_queue, WakeEntry)
         ELSE UNCHANGED <<trackerVars, wrapped_init_done, task_queue>>
    /\ UNCHANGED <<config, running, peek_timers, cycle_canceler,
                   last_set_color, startup_quiet, response_expected,
                   events, last_service>>
    /\ UNCHANGED <<seqVars, pureVars>>

\* the priority async_turn_on gives the base on sequence
TurnOnPriority ==
    IF config.dynamic_priority
    THEN LET top == Head(get_top_sequences(active)).seq.priority
         IN  (IF config.light_on_priority > top THEN config.light_on_priority
              ELSE top) + 1
    ELSE config.light_on_priority

\* _add_sequence(notify_id, sequence)
AddSequence(key, seq) ==
    task_queue' = Append(task_queue, QueueEntry(Some(CONF_ADD), Some(key), Some(seq)))

\* _remove_sequence(notify_id)
RemoveSequence(key) ==
    task_queue' = Append(task_queue, QueueEntry(Some(CONF_DELETE), Some(key), None))

\* async_added_to_hass after the last state is known
RestoreLastState ==
    /\ setup = "added"
    /\ setup' = "restored"
    /\ \E restored \in {"none", STATE_ON, STATE_OFF} :
         IF restored = "none"
         THEN UNCHANGED <<active, task_queue>>
         ELSE IF config.restore_power
         THEN /\ IF restored = STATE_ON
                 THEN AddSequence(STATE_ON, LightOnSequence(config.rgb, TurnOnPriority))
                 ELSE RemoveSequence(STATE_ON)
              /\ UNCHANGED active
         ELSE IF restored = STATE_ON
         THEN /\ active' = sort_active_sequences(
                     DictSet(active, STATE_ON,
                             LightOnSequence(config.rgb, config.light_on_priority)))
              /\ UNCHANGED task_queue
         ELSE UNCHANGED <<active, task_queue>>
    /\ UNCHANGED <<config, running, pc, peek_timers, cycle_canceler,
                   last_set_color, startup_quiet, wrapped_init_done,
                   response_expected, events, last_service>>
    /\ UNCHANGED <<seqVars, trackerVars, pureVars>>

\* _handle_notification_change for a notification that is on
NotifyOn ==
    /\ Subscribed
    /\ Event
    /\ \E n \in NotifyIds : \E attributes \in NotifyAttrs(n) :
         AddSequence(n, create_sequence_from_attr(attributes, n))
    /\ UNCHANGED <<config, setup, active, running, pc, peek_timers,
                   cycle_canceler, last_set_color, startup_quiet,
                   wrapped_init_done, response_expected,
                   last_service>>
    /\ UNCHANGED <<seqVars, trackerVars, pureVars>>

\* _handle_notification_change for a notification that is off or gone
NotifyOff ==
    /\ Subscribed
    /\ Event
    /\ \E n \in NotifyIds : RemoveSequence(n)
    /\ UNCHANGED <<config, setup, active, running, pc, peek_timers,
                   cycle_canceler, last_set_color, startup_quiet,
                   wrapped_init_done, response_expected,
                   last_service>>
    /\ UNCHANGED <<seqVars, trackerVars, pureVars>>

\* async_turn_on without arguments: the color is _last_on_rgb
TurnOn ==
    /\ Subscribed
    /\ Event
    /\ AddSequence(STATE_ON, LightOnSequence(config.rgb, TurnOnPriority))
    /\ UNCHANGED <<config, setup, active, running, pc, peek_timers,
                   cycle_canceler, last_set_color, startup_quiet,
                   wrapped_init_done, response_expected, last_service>>
    /\ UNCHANGED <<seqVars, trackerVars, pureVars>>

\* async_turn_off
TurnOff ==
    /\ Subscribed
    /\ Event
    /\ RemoveSequence(STATE_ON)
    /\ UNCHANGED <<config, setup, active, running, pc, peek_timers,
                   cycle_canceler, last_set_color, startup_quiet,
                   wrapped_init_done, response_expected,
                   last_service>>
    /\ UNCHANGED <<seqVars, trackerVars, pureVars>>

\* faulty variant: the reset keeps the last color that was sent
ResetRunningSequences_KeepsColor ==
    /\ active' = StopAll(active, running)
    /\ running' = {}
    /\ last_set_color' = last_set_color
    /\ task_queue' = Append(task_queue, WakeEntry)

\* _reset_running_sequences: every running animation is stopped, the color
\* memory is cleared and the loop is woken
ResetRunningSequences ==
    /\ active' = StopAll(active, running)
    /\ running' = {}
    /\ last_set_color' = None
    /\ task_queue' = Append(task_queue, WakeEntry)

\* faulty variant: every state change counts as one nobody asked for
UnexpectedEvent_Always == TRUE

\* time.time() > self._response_expected_expire_time
UnexpectedEvent == ~response_expected

\* _handle_wrapped_light_change: the tracker follows the wrapped light; a
\* first state initializes, a change nobody asked for resets
HandleWrappedLightChange(new_state, old_is_none) ==
    /\ IF new_state # None
       THEN /\ wrapped_state' = update(wrapped_state, Val(new_state))
            /\ last_accepted' = IF wrapped_state.frozen THEN last_accepted
                                ELSE Val(new_state)
            /\ last_call' = "update"
       ELSE UNCHANGED trackerVars
    /\ IF old_is_none
       THEN /\ wrapped_init_done' = TRUE
            /\ task_queue' = Append(task_queue, WakeEntry)
            /\ UNCHANGED <<active, running, last_set_color, last_service>>
       ELSE IF UnexpectedEvent
       THEN /\ ResetRunningSequences
            /\ last_service' = Superseded
            /\ UNCHANGED wrapped_init_done
       ELSE UNCHANGED <<active, running, last_set_color, wrapped_init_done,
                        task_queue, last_service>>
    /\ UNCHANGED <<config, setup, pc, peek_timers, cycle_canceler,
                   startup_quiet, response_expected>>
    /\ UNCHANGED <<seqVars, pureVars>>

\* a state-change event of the wrapped light
WrappedLightChange ==
    /\ Subscribed
    /\ Event
    /\ \E new_state \in {None} \cup {Some(s) : s \in EntityLightStates},
          old_is_none \in BOOLEAN :
         HandleWrappedLightChange(new_state, old_is_none)

\* EXPECTED_SERVICE_CALL_TIMEOUT seconds have passed since the last call
ResponseWindowCloses ==
    /\ response_expected
    /\ response_expected' = FALSE
    /\ UNCHANGED <<config, setup, active, running, task_queue, pc,
                   peek_timers, cycle_canceler, last_set_color, startup_quiet,
                   wrapped_init_done, events, last_service>>
    /\ UNCHANGED <<seqVars, trackerVars, pureVars>>

\* faulty variant: the timer leaves the boosted priority in place
restore_priority_KeepsBoost(seq, priority) == seq

\* restore_priority: sequence.priority = priority
restore_priority(seq, priority) == [seq EXCEPT !.priority = priority]

\* restore_priority: the peek timer that was set first fires
PeekRestore ==
    /\ peek_timers # <<>>
    /\ peek_timers' = Tail(peek_timers)
    /\ LET timer == Head(peek_timers)
       IN  IF timer.notify_id \in KeysOf(active)
           THEN LET seq == Lookup(active, timer.notify_id)
                    restored == restore_priority(seq, timer.priority)
                IN  /\ active' = sort_active_sequences(
                                     Mutate(active, timer.notify_id, restored))
                    /\ task_queue' = Append(task_queue, WakeEntry)
           ELSE UNCHANGED <<active, task_queue>>
    /\ UNCHANGED <<config, setup, running, pc, cycle_canceler, last_set_color,
                   startup_quiet, wrapped_init_done, response_expected,
                   events, last_service>>
    /\ UNCHANGED <<seqVars, trackerVars, pureVars>>

\* queue_cycle: the cycle timer fires
QueueCycle ==
    /\ cycle_canceler
    /\ cycle_canceler' = FALSE
    /\ IF Cardinality(running) > 1
       THEN task_queue' = Append(task_queue,
                                    QueueEntry(Some(ACTION_CYCLE_SAME), None, None))
       ELSE UNCHANGED task_queue
    /\ UNCHANGED <<config, setup, active, running, pc, peek_timers,
                   last_set_color, startup_quiet, wrapped_init_done,
                   response_expected, events, last_service>>
    /\ UNCHANGED <<seqVars, trackerVars, pureVars>>

\* _worker_func after one more step: a pattern that does not loop forever
\* is over, and the task returns
AfterStep(seq) == [seq EXCEPT !.is_running = seq.loops_forever]

\* _NotificationSequence._worker_func: a running animation ends a step.  A
\* worker that waits with an empty queue goes on to the next pass; with a
\* command on the queue the queue task is done as well and HandleCommand
\* takes it.
AnimationStepBody ==
    /\ \E r \in running :
         /\ is_running(RunningSeq(r, active))
         /\ IF r.same
            THEN /\ active' = Mutate(active, r.key, AfterStep(Lookup(active, r.key)))
                 /\ UNCHANGED running
            ELSE /\ running' = (running \ {r}) \cup
                                    {Running(r.key, FALSE, AfterStep(r.seq))}
                 /\ UNCHANGED active
    /\ pc' = IF pc = "wait" /\ task_queue = <<>> THEN "process" ELSE pc
    /\ UNCHANGED <<config, setup, task_queue, peek_timers, cycle_canceler,
                   last_set_color, startup_quiet, wrapped_init_done,
                   response_expected, events, last_service>>

AnimationStep ==
    /\ AnimationStepBody
    /\ UNCHANGED <<seqVars, trackerVars, pureVars>>

\* faulty variant: the top color is sent in every pass
ColorChanged_Always(color) == TRUE

\* color != self._last_set_color
ColorChanged(color) == Some(color) # last_set_color

\* _process_sequence_list, and the scheduling of the cycle timer after it
ProcessSequenceList ==
    /\ pc = "process"
    /\ LET tops == get_top_sequences(active)
       IN  IF tops = <<>>
           THEN /\ pc' = "wait"
                /\ ScheduleCycle(running)
                /\ last_service' = [last_service EXCEPT !.issued = "none"]
                /\ UNCHANGED <<active, running, last_set_color, wrapped_state,
                               last_call, response_expected>>
           ELSE LET top_priority == Head(tops).seq.priority
                    started == StartTops(tops, active, running)
                    remove_list == RemoveList(started.runs, started.act, top_priority)
                    runs == started.runs \ remove_list
                    act == StopAll(started.act, remove_list)
                    top_key == Head(tops).key
                    is_base == top_key \in {STATE_ON, STATE_OFF}
                    color == Lookup(act, top_key).color
                IN  /\ running' = runs
                    /\ active' = act
                    /\ IF is_base /\ is_frozen(wrapped_state)
                       THEN LET r == restore_wrapped_light
                            IN  /\ AfterCall(r, "restore")
                                /\ wrapped_state' = IF r.ok THEN unfreeze(wrapped_state)
                                                    ELSE wrapped_state
                                /\ last_call' = IF r.ok THEN "unfreeze" ELSE last_call
                                /\ last_set_color' = IF r.ok THEN None ELSE last_set_color
                                /\ pc' = "wait"
                                /\ ScheduleCycle(runs)
                       ELSE IF ColorChanged(color)
                       THEN LET r == wrapped_light_turn_on(light_params(color))
                            IN  /\ AfterCall(r, "color")
                                /\ last_set_color' = IF r.ok THEN Some(color)
                                                     ELSE last_set_color
                                /\ pc' = IF r.ok THEN "wait" ELSE "sleep"
                                /\ IF r.ok THEN ScheduleCycle(runs)
                                   ELSE UNCHANGED cycle_canceler
                                /\ UNCHANGED <<wrapped_state, last_call>>
                       ELSE /\ pc' = "wait"
                            /\ ScheduleCycle(runs)
                            /\ last_service' = [last_service EXCEPT !.issued = "none"]
                            /\ UNCHANGED <<last_set_color, wrapped_state, last_call,
                                           response_expected>>
    /\ UNCHANGED <<config, setup, task_queue, peek_timers, startup_quiet,
                   wrapped_init_done, events, last_accepted>>
    /\ UNCHANGED <<seqVars, pureVars>>

\* a failed call: after INIT_STATE_UPDATE_DELAY_SEC the running animations
\* are reset, then the loop goes on to wait
ResetAfterFailure ==
    /\ pc = "sleep"
    /\ pc' = "wait"
    /\ ResetRunningSequences
    /\ ScheduleCycle({})
    /\ UNCHANGED <<config, setup, peek_timers, startup_quiet,
                   wrapped_init_done, response_expected, events, last_service>>
    /\ UNCHANGED <<seqVars, trackerVars, pureVars>>

\* the CONF_DELETE branch: anim is the object popped from the Active Set
\* deleted is a ghost field of a pending peek timer: whether the notification
\* the timer was armed for has been deleted since.  The code keeps no such
\* mark and no action reads it.
MarkDeleted(timers, key) ==
    [i \in DOMAIN timers |->
        IF timers[i].notify_id = key THEN [timers[i] EXCEPT !.deleted = TRUE]
        ELSE timers[i]]

HandleDelete(item) ==
    LET key == Val(item.notify_id)
    IN  IF key \in KeysOf(active)
        THEN /\ active' = DictPop(active, key)
             /\ running' = {r \in running : r.key # key}
             /\ peek_timers' = MarkDeleted(peek_timers, key)
        ELSE UNCHANGED <<active, running, peek_timers>>

\* the CONF_ADD branch: peek boost, insert, sort, end of startup quiet, freeze
HandleAdd(item) ==
    LET key == Val(item.notify_id)
        seq == Val(item.sequence)
        boost == /\ config.peek_duration > 0
                 /\ seq.peek_enabled
                 /\ key # STATE_OFF
        auto_clears == seq.clear_delay = Some(0) /\ ~seq.loops_forever
        boosted == IF boost
                   THEN [seq EXCEPT !.priority = @ + Halves(MAXIMUM_PRIORITY)]
                   ELSE seq
    IN  /\ IF boost /\ ~auto_clears
           THEN peek_timers' = Append(peek_timers,
                       [priority |-> seq.priority, notify_id |-> key,
                        deleted |-> FALSE])
           ELSE UNCHANGED peek_timers
        /\ active' = sort_active_sequences(DictSet(active, key, boosted))
        \* an object that is replaced stays in the Running Set
        /\ running' = {IF r.key = key /\ r.same
                       THEN Running(key, FALSE, Lookup(active, key)) ELSE r :
                       r \in running}
        /\ startup_quiet' = FALSE
        /\ wrapped_state' = IF ~is_frozen(wrapped_state) THEN freeze(wrapped_state)
                            ELSE wrapped_state
        /\ last_call' = IF ~is_frozen(wrapped_state) THEN "freeze" ELSE last_call

\* faulty variant: the newest command is taken
QueueGet_Newest(queue) ==
    [item |-> queue[Len(queue)], rest |-> SubSeq(queue, 1, Len(queue) - 1)]

\* asyncio.Queue.get on the command queue: the oldest command, and the queue
\* that is left
QueueGet(queue) == [item |-> Head(queue), rest |-> Tail(queue)]

\* the worker takes the next command off the queue and carries it out
HandleCommandBody ==
    /\ pc = "wait"
    /\ task_queue # <<>>
    /\ pc' = "process"
    /\ task_queue' = QueueGet(task_queue).rest
    /\ LET item == QueueGet(task_queue).item
       IN  CASE item.action = Some(CONF_DELETE) ->
                    /\ HandleDelete(item)
                    /\ UNCHANGED <<startup_quiet, wrapped_state, last_call>>
             [] item.action = Some(CONF_ADD) /\ item.sequence # None ->
                    HandleAdd(item)
             [] item.action = Some(ACTION_CYCLE_SAME) ->
                    /\ active' = CycleSame(active)
                    /\ UNCHANGED <<running, peek_timers, startup_quiet,
                                   wrapped_state, last_call>>
             [] OTHER ->
                    UNCHANGED <<active, running, peek_timers, startup_quiet,
                                wrapped_state, last_call>>
    /\ last_service' = IF active' # active THEN Superseded ELSE last_service
    /\ UNCHANGED <<config, setup, cycle_canceler, last_set_color,
                   wrapped_init_done, response_expected, events,
                   last_accepted>>

HandleCommand ==
    /\ HandleCommandBody
    /\ UNCHANGED <<seqVars, pureVars>>

Next ==
    \/ AddedToHass
    \/ RestoreLastState
    \/ NotifyOn
    \/ NotifyOff
    \/ TurnOn
    \/ TurnOff
    \/ WrappedLightChange
    \/ ResponseWindowCloses
    \/ PeekRestore
    \/ QueueCycle
    \/ AnimationStep
    \/ ProcessSequenceList
    \/ ResetAfterFailure
    \/ HandleCommand

Spec == InitEntity /\ [][Next]_vars

----------------------------------------------------------------------------
(* Spec: _get_top_sequences on its own (SpecTop).  The Active Set is any   *)
(* set the light can hold at a wait point: base off with priority 0 last,  *)
(* before it the light-on entry and the notifications in any order that    *)
(* is sorted by descending priority; their priorities are at least 1.      *)

\* the priorities 1..MaxPriority are given to the entries besides base off
MaxPriority == 3

\* the keys of the Active Set besides base off
ActiveKeys == {STATE_ON} \cup NotifyIds

\* the sequence an entry holds under key with the given priority
SequenceFor(key, priority) ==
    IF key = STATE_ON
    THEN LightOnSequence(WARM_WHITE_RGB, Halves(priority))
    ELSE create_sequence_from_attr(
             NotifyAttributes(None, Some(Halves(priority)), FALSE, None, None), key)

\* the Active Set with the keys ks at the priorities ps, then base off
ActiveSetOf(ks, ps) ==
    [i \in 1..Len(ks) |-> Entry(ks[i], SequenceFor(ks[i], ps[i]))]
        \o <<Entry(STATE_OFF, LIGHT_OFF_SEQUENCE)>>

SortedActiveSets ==
    UNION {{ActiveSetOf(ks, ps) :
                ks \in {k \in [1..n -> ActiveKeys] :
                           \A i, j \in 1..n : i # j => k[i] # k[j]},
                ps \in {p \in [1..n -> 1..MaxPriority] :
                           \A i \in 1..(n - 1) : p[i] >= p[i + 1]}} :
           n \in 0..Cardinality(ActiveKeys)}

\* an entity that holds the Active Set act and nothing else
EntityHolding(act) ==
    /\ config = Config(FALSE, TRUE, 0, None)
    /\ setup = "idle"
    /\ pc = "idle"
    /\ active = act
    /\ running = {}
    /\ task_queue = <<>>
    /\ peek_timers = <<>>
    /\ cycle_canceler = FALSE
    /\ last_set_color = None
    /\ startup_quiet = FALSE
    /\ wrapped_init_done = FALSE
    /\ response_expected = FALSE
    /\ events = 0
    /\ last_service = NoService

InitTop ==
    /\ SeqIdle
    /\ TrackerIdle
    /\ \E act \in SortedActiveSets : EntityHolding(act)
    /\ PureIdle

\* a call of _get_top_sequences
GetTopSequences ==
    /\ top_sequences = None
    /\ top_sequences' = Some(get_top_sequences(active))
    /\ UNCHANGED <<seqVars, trackerVars, schedVars, cycle_trace, lights, off_sequence,
                   funcVars>>

NextTop == GetTopSequences

SpecTop == InitTop /\ [][NextTop]_vars

----------------------------------------------------------------------------
(* The order of the Active Set.                                            *)

\* the Active Set is ordered by non-increasing priority
IsSorted(act) ==
    \A i \in 1..(Len(act) - 1) : act[i].seq.priority >= act[i + 1].seq.priority

\* the highest priority present in a non-empty Active Set
HighestPriority(act) ==
    CHOOSE p \in {act[i].seq.priority : i \in DOMAIN act} :
        \A i \in DOMAIN act : act[i].seq.priority <= p

\* the entries of the highest priority present, in Active Set order
HighestEntries(act) ==
    SelectSeq(act, LAMBDA e : e.seq.priority = HighestPriority(act))

\* C9: for every Active Set that is sorted by descending priority and holds
\* the base off entry, _get_top_sequences returns exactly the entries whose
\* priority is the highest priority present, in Active Set order, and no
\* entry of lower priority.
C9_TopSequences ==
    (/\ top_sequences # None
     /\ IsSorted(active)
     /\ STATE_OFF \in KeysOf(active))
    => Val(top_sequences) = HighestEntries(active)

\* _get_top_sequences has returned two entries of equal priority and has left
\* out a notification of lower priority as well as base off
C9_Witness ==
    /\ top_sequences # None
    /\ IsSorted(active)
    /\ STATE_OFF \in KeysOf(active)
    /\ Len(Val(top_sequences)) = 2
    /\ Len(active) = 4
    /\ active[3].seq.priority < active[2].seq.priority

\* position of the entry under key in the Active Set
Position(act, key) == IndexOf(act, key)

\* the worker takes an ACTION_CYCLE_SAME command off the queue
CycleStep ==
    /\ pc = "wait"
    /\ pc' = "process"
    /\ task_queue # <<>>
    /\ Head(task_queue).action = Some(ACTION_CYCLE_SAME)

\* two keys that stay in the Active Set and are of equal priority after the
\* step are in the order they were in before it
EqualOrderKept ==
    \A k1, k2 \in KeysOf(active) \cap KeysOf(active') :
        (/\ Lookup(active', k1).priority = Lookup(active', k2).priority
         /\ Position(active, k1) < Position(active, k2))
        => Position(active', k1) < Position(active', k2)

\* C10: wherever the worker loop waits for its next event the Active Set is
\* ordered by non-increasing priority, whatever Add, Delete, Cycle and wake
\* commands and peek-restore timers came before; and the relative order of
\* two entries of equal priority is changed by no step but a Cycle command.
C10_SortedAndStable ==
    /\ [](pc = "wait" => IsSorted(active))
    /\ [][CycleStep \/ EqualOrderKept]_vars

\* the worker waits with a notification ahead of the light-on entry of the
\* same priority (after a peek restore or a Cycle), a lower entry behind
\* them, and nothing left on the queue
C10_Witness ==
    /\ pc = "wait"
    /\ task_queue = <<>>
    /\ peek_timers = <<>>
    /\ Len(active) >= 3
    /\ active[1].key \in NotifyIds
    /\ active[2].key = STATE_ON
    /\ active[1].seq.priority = active[2].seq.priority
    /\ IsSorted(active)

----------------------------------------------------------------------------
(* Spec: the ACTION_CYCLE_SAME branch on its own (SpecCycle).  Cycle       *)
(* commands are handled one after the other on an Active Set the light can *)
(* hold at a wait point.                                                   *)

\* the number of Cycle commands handled in a row
MaxCycles == 3

InitCycle ==
    /\ SeqIdle
    /\ TrackerIdle
    /\ \E act \in SortedActiveSets :
         /\ EntityHolding(act)
         /\ cycle_trace = <<act>>
    /\ top_sequences = None
    /\ lights = <<>>
    /\ off_sequence = None
    /\ FuncIdle

\* the worker handles one ACTION_CYCLE_SAME command
CycleCommand ==
    /\ Len(cycle_trace) <= MaxCycles
    /\ active' = CycleSame(active)
    /\ cycle_trace' = Append(cycle_trace, active')
    /\ UNCHANGED <<config, setup, running, task_queue, pc, peek_timers,
                   cycle_canceler, last_set_color, startup_quiet,
                   wrapped_init_done, response_expected, events, last_service>>
    /\ UNCHANGED <<seqVars, trackerVars, top_sequences, lights, off_sequence,
                   funcVars>>

NextCycle == CycleCommand

SpecCycle == InitCycle /\ [][NextCycle]_vars

\* the number of entries tied at the top priority
TiedAtTop(act) == Len(HighestEntries(act))

\* the priority each key has
PriorityOf(act) == [k \in KeysOf(act) |-> Lookup(act, k).priority]

\* the Active Set the Cycle commands started from
CycleOrigin == cycle_trace[1]

\* C11: when k >= 2 entries are tied at the top priority and the first entry
\* is not base off, one Cycle command makes the second tied entry the first
\* and leaves every priority as it was; k Cycle commands in a row make each
\* of the k tied entries the first entry exactly once and bring the Active
\* Set back to the order it started from.
C11_CycleRotates ==
    (/\ cycle_trace # <<>>
     /\ TiedAtTop(CycleOrigin) >= 2
     /\ CycleOrigin[1].key # STATE_OFF)
    => LET k == TiedAtTop(CycleOrigin)
       IN  /\ \A i \in 2..Len(cycle_trace) :
                /\ cycle_trace[i][1] = cycle_trace[i - 1][2]
                /\ PriorityOf(cycle_trace[i]) = PriorityOf(cycle_trace[i - 1])
                /\ Len(cycle_trace[i]) = Len(cycle_trace[i - 1])
           /\ Len(cycle_trace) > k =>
                /\ {cycle_trace[i][1] : i \in 2..(k + 1)}
                       = {CycleOrigin[i] : i \in 1..k}
                /\ cycle_trace[k + 1] = CycleOrigin

\* two Cycle commands have been handled on two tied notifications that have
\* a notification of lower priority and base off behind them
C11_Witness ==
    /\ Len(cycle_trace) >= 3
    /\ TiedAtTop(CycleOrigin) = 2
    /\ Len(CycleOrigin) = 4
    /\ CycleOrigin[1].key # STATE_OFF
    /\ cycle_trace[2] # CycleOrigin
    /\ cycle_trace[3] = CycleOrigin

----------------------------------------------------------------------------
(* The peek boost.                                                         *)

\* the command the worker takes next
NextCommand == Head(task_queue)

\* the worker takes a command off the queue and handles it
CommandStep ==
    /\ pc = "wait"
    /\ pc' = "process"
    /\ task_queue # <<>>
    /\ task_queue' = Tail(task_queue)

\* the worker handles an Add command
AddCommandStep ==
    /\ CommandStep
    /\ NextCommand.action = Some(CONF_ADD)
    /\ NextCommand.sequence # None

\* the worker handles the Add of a peek-enabled notification while a peek
\* window is configured
PeekAddStep ==
    /\ AddCommandStep
    /\ config.peek_duration > 0
    /\ Val(NextCommand.notify_id) \in NotifyIds
    /\ Val(NextCommand.sequence).peek_enabled

\* C12: with a non-zero peek window, right after the worker has handled the
\* Add of a peek-enabled notification (not base off), that notification is
\* the only top entry of the Active Set, whatever its nominal priority and
\* whatever else is active.
C12_PeekIsOnlyTop ==
    [][PeekAddStep =>
          LET tops == get_top_sequences(active')
          IN  /\ Len(tops) = 1
              /\ tops[1].key = Val(NextCommand.notify_id)]_vars

\* a peek timer fires
PeekTimerStep ==
    /\ peek_timers # <<>>
    /\ peek_timers' = Tail(peek_timers)

\* the timer that fires next, and the key it was set up for
NextTimer == Head(peek_timers)

\* the entry the next timer was set up for is in the Active Set and holds
\* the priority the Add gave it: the timer's priority plus the boost
StillBoosted ==
    /\ NextTimer.notify_id \in KeysOf(active)
    /\ Lookup(active, NextTimer.notify_id).priority
           = NextTimer.priority + Halves(MAXIMUM_PRIORITY)

\* C13: for a peek-boosted notification that does not clear itself and is
\* still in the Active Set when its peek window elapses, the firing of the
\* peek timer sets its priority back to exactly the priority it was added
\* with (the boost is taken off again), leaves the other priorities alone,
\* re-sorts the Active Set and wakes the worker.
C13_PeekRestoresNominal ==
    [][(PeekTimerStep /\ StillBoosted) =>
          LET key == NextTimer.notify_id
          IN  /\ KeysOf(active') = KeysOf(active)
              /\ Lookup(active', key).priority
                     = Lookup(active, key).priority - Halves(MAXIMUM_PRIORITY)
              /\ \A k \in KeysOf(active) \ {key} :
                     Lookup(active', k).priority = Lookup(active, k).priority
              /\ IsSorted(active')
              /\ task_queue' = Append(task_queue, WakeEntry)]_vars

\* a peek timer has fired for a notification that was ahead of base on while
\* boosted: it is back at its own priority, behind or level with base on,
\* and the wake command is on the queue
C13_Witness ==
    /\ peek_timers = <<>>
    /\ task_queue # <<>>
    /\ task_queue[Len(task_queue)] = WakeEntry
    /\ \E n \in NotifyIds :
         /\ n \in KeysOf(active)
         /\ STATE_ON \in KeysOf(active)
         /\ Lookup(active, n).priority = Halves(DEFAULT_PRIORITY)
         /\ Lookup(active, n).peek_enabled
         /\ config.peek_duration > 0
         /\ Lookup(active, STATE_ON).priority >= Halves(DEFAULT_PRIORITY)

----------------------------------------------------------------------------
(* The recompute pass and the restore of the wrapped light.                *)

\* the worker runs _process_sequence_list
PassStep ==
    /\ pc = "process"
    /\ pc' # "process"

\* the key of the top entry the pass works on
TopKey == Head(get_top_sequences(active)).key

\* the pass finds a base entry on top while the tracker is frozen
RestorePassStep ==
    /\ PassStep
    /\ get_top_sequences(active) # <<>>
    /\ TopKey \in {STATE_ON, STATE_OFF}
    /\ is_frozen(wrapped_state)

\* the pass sent one turn_on with the restore parameters when the tracked
\* state is on, one turn_off otherwise
RestoreCommandSent ==
    /\ last_service'.issued = "restore"
    /\ IF is_on(wrapped_state)
       THEN /\ last_service'.service = "turn_on"
            /\ last_service'.params = restore_params(wrapped_state)
       ELSE /\ last_service'.service = "turn_off"

\* the tracker is unfrozen and the last-sent color is cleared
RestoreCompleted ==
    /\ ~is_frozen(wrapped_state')
    /\ last_set_color' = None

\* the pass leaves the tracker and the last-sent color as they were
RestoreLeftForRetry ==
    /\ is_frozen(wrapped_state')
    /\ last_set_color' = last_set_color
    /\ last_service'.issued = "none"

RestoreStands == last_service.issued = "restore"

\* C15: after the last notification has been deleted with base off on top
\* and the restore command has succeeded, the restore command stays the last
\* command sent to the wrapped light: no later recompute pass (after an
\* animation step signal, a wake command or the Delete of an absent key)
\* sends the color of base off, until a new Add is handled or an unexpected
\* state change of the wrapped light arrives.
C15_RestoreStaysLast ==
    [][(/\ PassStep
        /\ RestoreStands
        /\ KeysOf(active) = {STATE_OFF}
        /\ ~is_frozen(wrapped_state))
       => /\ last_service'.issued = "none"
          /\ last_service'.service = last_service.service
          /\ last_service'.params = last_service.params]_vars

\* the pass sends the color of a top entry that is a notification
NotificationColorSent ==
    /\ PassStep
    /\ get_top_sequences(active) # <<>>
    /\ TopKey \in NotifyIds
    /\ last_service'.issued = "color"

\* C16: whenever the worker sends the color of a top entry that is a
\* notification (not base on, not base off) to the wrapped light, the tracker
\* is frozen, for every interleaving of notification Add and Delete
\* commands, turn_on and turn_off calls on the virtual light and peek
\* timers; so the tracked pre-notification state is never overwritten by a
\* state that a notification color produced.
C16_FrozenWhileNotifying ==
    [][NotificationColorSent => is_frozen(wrapped_state)]_vars

----------------------------------------------------------------------------
(* The startup quiet period.                                               *)

\* C17: with restore_power false, from the creation of the entity until the
\* worker handles its first Add command, no turn_on and no turn_off service
\* call is issued to the wrapped light, whatever wake commands, Delete
\* commands, restored last state or state changes of the wrapped light
\* occur in between.
C17_QuietUntilFirstAdd ==
    /\ [][startup_quiet' # startup_quiet => AddCommandStep]_vars
    /\ []((~config.restore_power /\ startup_quiet)
              => (last_service.service = "none" /\ ~response_expected))

\* still quiet after the worker has handled a Delete and woken for a state
\* change of the wrapped light: the passes have taken base on's color as
\* sent without a call
C17_Witness ==
    /\ ~config.restore_power
    /\ startup_quiet
    /\ setup = "restored"
    /\ events = MaxEvents
    /\ pc = "wait"
    /\ task_queue = <<>>
    /\ wrapped_init_done
    /\ STATE_ON \in KeysOf(active)
    /\ last_set_color # None
    /\ last_service.service = "none"

----------------------------------------------------------------------------
(* The command queue.                                                      *)

\* the worker leaves its wait with a command on the queue
WorkerTakes ==
    /\ pc = "wait"
    /\ pc' = "process"
    /\ task_queue # <<>>

\* one command has been put at the end of the queue
Enqueued ==
    /\ Len(task_queue') = Len(task_queue) + 1
    /\ SubSeq(task_queue', 1, Len(task_queue)) = task_queue

\* the step has carried out the command item on the Active Set
Handled(item) ==
    CASE item.action = Some(CONF_DELETE) ->
             /\ Val(item.notify_id) \notin KeysOf(active')
             /\ active' = IF Val(item.notify_id) \in KeysOf(active)
                          THEN DictPop(active, Val(item.notify_id))
                          ELSE active
      [] item.action = Some(CONF_ADD) /\ item.sequence # None ->
             /\ Val(item.notify_id) \in KeysOf(active')
             /\ [Lookup(active', Val(item.notify_id))
                     EXCEPT !.priority = Val(item.sequence).priority]
                    = Val(item.sequence)
      [] item.action = Some(ACTION_CYCLE_SAME) ->
             active' = CycleSame(active)
      [] OTHER -> active' = active

----------------------------------------------------------------------------
(* Who writes the Active Set, the Running Set and the color memory.        *)

\* the keys of the Active Set in order, each with the priority of its entry
ActiveView(act) == [i \in DOMAIN act |-> <<act[i].key, act[i].seq.priority>>]

\* a step of the worker task: it moves between setup, pass, wait and sleep
WorkerStep == pc' # pc

\* a step of async_added_to_hass, which fills the Active Set at setup
SetupStep == setup' # setup

\* C19: once the entity is set up, the content of the Active Set (keys,
\* order, priorities), the keys of the Running Set and the last-sent color
\* change only in steps of the worker task; notification events,
\* wrapped-light state changes, service calls and the peek-restore and
\* cycle timers leave all three as they are.
C19_OnlyWorkerWrites ==
    [][(\/ ActiveView(active') # ActiveView(active)
        \/ RunningKeys(running') # RunningKeys(running)
        \/ last_set_color' # last_set_color) => (WorkerStep \/ SetupStep)]_vars

----------------------------------------------------------------------------
(* Spec: two lights in one process (SpecLights).  Every light puts the     *)
(* module-level LIGHT_OFF_SEQUENCE object under STATE_OFF into its Active  *)
(* Set; the object has one animation task, one stop event and one step     *)
(* signal.  Of a light only what bears on base off is kept: whether a      *)
(* notification of higher priority is active, whether base off is in its   *)
(* Running Set, and where its worker is.                                   *)

Lights == {"light_a", "light_b"}

\* the commands a light's queue holds at most
MaxQueued == 1

\* a light before async_added_to_hass
NewLight == [added |-> FALSE, notify_on |-> FALSE, queue |-> <<>>,
             notifying |-> FALSE, running_off |-> FALSE, pc |-> "idle"]

\* LIGHT_OFF_SEQUENCE as constructed: no task, no stop event, step signal set
NewOffSequence == [task |-> "none", stop_event |-> None, step_finished |-> TRUE]

\* _NotificationSequence.is_running
sequence_is_running(seq) ==
    /\ seq.task = "running"
    /\ seq.stop_event = Some(FALSE)

\* _NotificationSequence.run: the stop event in use is set, a new one is made
\* and a new animation task is created
sequence_run(seq) == [seq EXCEPT !.stop_event = Some(FALSE), !.task = "running"]

\* _NotificationSequence.stop
sequence_stop(seq) ==
    IF seq.stop_event # None THEN [seq EXCEPT !.stop_event = Some(TRUE)] ELSE seq

\* what SpecLights leaves alone
LightsFrame ==
    UNCHANGED <<seqVars, trackerVars, schedVars, top_sequences, cycle_trace,
                funcVars>>

InitLights ==
    /\ SeqIdle
    /\ TrackerIdle
    /\ EntityHolding(<<>>)
    /\ top_sequences = None
    /\ cycle_trace = <<>>
    /\ FuncIdle
    /\ lights = [l \in Lights |-> NewLight]
    /\ off_sequence = NewOffSequence

\* async_added_to_hass of light l: base off is put in, the worker is spawned
LightAdded ==
    /\ \E l \in Lights :
         /\ ~lights[l].added
         /\ lights' = [lights EXCEPT ![l].added = TRUE, ![l].pc = "process"]
    /\ UNCHANGED off_sequence
    /\ LightsFrame

\* _handle_notification_change of light l: its notification turns on or off
\* and the Add or Delete is put on the queue of l
LightNotifyChange ==
    /\ \E l \in Lights :
         /\ lights[l].added
         /\ Len(lights[l].queue) < MaxQueued
         /\ lights' = [lights EXCEPT
                ![l].notify_on = ~lights[l].notify_on,
                ![l].queue = Append(@, IF lights[l].notify_on THEN CONF_DELETE
                                       ELSE CONF_ADD)]
    /\ UNCHANGED off_sequence
    /\ LightsFrame

\* the worker of light l takes the next command: an Add puts the
\* notification above base off, a Delete takes it out
LightHandleCommand ==
    /\ \E l \in Lights :
         /\ lights[l].pc = "wait"
         /\ lights[l].queue # <<>>
         /\ lights' = [lights EXCEPT
                ![l].queue = Tail(@),
                ![l].notifying = (Head(lights[l].queue) = CONF_ADD),
                ![l].pc = "process"]
    /\ UNCHANGED off_sequence
    /\ LightsFrame

\* _process_sequence_list of light l: base off is run when it is the top
\* entry and not in the Running Set, and stopped and taken out of the
\* Running Set when a notification is above it
LightPass ==
    /\ \E l \in Lights :
         /\ lights[l].pc = "process"
         /\ IF ~lights[l].notifying /\ ~lights[l].running_off
            THEN /\ off_sequence' = sequence_run(off_sequence)
                 /\ lights' = [lights EXCEPT ![l].running_off = TRUE,
                                             ![l].pc = "wait"]
            ELSE IF lights[l].notifying /\ lights[l].running_off
            THEN /\ off_sequence' = sequence_stop(off_sequence)
                 /\ lights' = [lights EXCEPT ![l].running_off = FALSE,
                                             ![l].pc = "wait"]
            ELSE /\ lights' = [lights EXCEPT ![l].pc = "wait"]
                 /\ UNCHANGED off_sequence
    /\ LightsFrame

\* the worker of light l waits on the step signal of base off
WaitsOnStep(l) ==
    /\ lights[l].pc = "wait"
    /\ lights[l].queue = <<>>
    /\ lights[l].running_off
    /\ sequence_is_running(off_sequence)

\* _NotificationSequence._worker_func of the newest task: the one step of the
\* pattern is run, the step signal is cleared and set, and the task ends;
\* every worker that waits on the signal alone goes on to its next pass
OffAnimationStep ==
    /\ off_sequence.task = "running"
    /\ off_sequence' = [off_sequence EXCEPT !.task = "done"]
    /\ lights' = [l \in Lights |->
                    IF WaitsOnStep(l) THEN [lights[l] EXCEPT !.pc = "process"]
                    ELSE lights[l]]
    /\ LightsFrame

NextLights ==
    \/ LightAdded
    \/ LightNotifyChange
    \/ LightHandleCommand
    \/ LightPass
    \/ OffAnimationStep

SpecLights == InitLights /\ [][NextLights]_vars

----------------------------------------------------------------------------
(* Independence of two lights.                                             *)

\* a step of the animation task, which belongs to no light
AnimationTaskStep == off_sequence.task = "running" /\ off_sequence'.task = "done"

\* an operation on light l: it is added, its notification changes, or its
\* worker handles a command or makes a pass
OperationOn(l) == lights'[l] # lights[l] /\ ~AnimationTaskStep

\* the animation task, stop event and step signal of light l's base off
\* entry: what l reads through its Active Set, None before l is added
BaseOffEntry(l) == IF lights[l].added THEN Some(off_sequence) ELSE None

\* C20: no operation on one light (adding it, an Add or Delete command, a
\* pass that starts or stops the animation of its base off entry) changes
\* the animation task, stop event or step signal of the base off entry that
\* the other light holds.
C20_LightsIndependent ==
    [][\A l \in Lights : OperationOn(l) =>
           \A o \in Lights \ {l} : BaseOffEntry(o)' = BaseOffEntry(o)]_vars

----------------------------------------------------------------------------
(* The base off entry.                                                     *)

\* the entity has been added to hass
Added == setup \in {"added", "restored"}

\* C21: from the moment the entity is added, whatever Add, Delete, Cycle and
\* wake commands the notification events and turn_on/turn_off of the virtual
\* light have caused, the Active Set holds the base off entry with priority
\* 0; it is never empty.
C21_BaseOffAlwaysPresent ==
    Added => /\ active # <<>>
             /\ STATE_OFF \in KeysOf(active)
             /\ Lookup(active, STATE_OFF).priority = Halves(0)

\* every event has been handled, the entries that were added have been
\* deleted again, and base off is what is left
C21_Witness ==
    /\ setup = "restored"
    /\ events = MaxEvents
    /\ pc = "wait"
    /\ task_queue = <<>>
    /\ KeysOf(active) = {STATE_OFF}
    /\ last_service.service # "none"

----------------------------------------------------------------------------
(* Spec: ColorInfo.interpolated_to on its own (SpecInterp).  The amount is *)
(* a fraction num/AmountDen between 0 and 1.                               *)

\* the denominator of the amounts tried: 0, 1/2, 1
AmountDen == 2

Amounts == 0..AmountDen

\* int(x) for the fraction x = scaled / AmountDen: truncation toward zero
IntOf(scaled) ==
    IF scaled >= 0 THEN scaled \div AmountDen ELSE 0 - ((0 - scaled) \div AmountDen)

\* the float scaled / AmountDen: a whole number, or the fraction as a pair
FloatOf(scaled) ==
    IF scaled % AmountDen = 0 THEN scaled \div AmountDen ELSE <<scaled, AmountDen>>

\* faulty variant: the amount is counted from the end
Between_FromEnd(t1, t2, num) == t2 * AmountDen + (t1 - t2) * num

\* t1 + (t2 - t1) * amount, times AmountDen
Between(t1, t2, num) == t1 * AmountDen + (t2 - t1) * num

\* _interpolate(start, end, amount)
interpolate(start, end, num) ==
    [i \in DOMAIN start |-> IntOf(Between(start[i], end[i], num))]

\* ColorInfo.interpolated_to(end, amount)
interpolated_to(self, end, num) ==
    IF self.kelvin # None /\ end.kelvin # None
    THEN ColorInfo(self.rgb,
                   FloatOf(Between(self.brightness, end.brightness, num)),
                   Some(IntOf(Between(Val(self.kelvin), Val(end.kelvin), num))),
                   None, self.explicit_brightness)
    ELSE LET interpolated == interpolate(self.rgb \o <<self.brightness>>,
                                         end.rgb \o <<end.brightness>>, num)
         IN  ColorInfo(SubSeq(interpolated, 1, 3), interpolated[4], None, None,
                       self.explicit_brightness)

\* the colors interpolated between: integer rgb and brightness, with and
\* without kelvin, transition and explicit brightness
InterpColors ==
    {ColorInfo(rgb, brightness, kelvin, transition, explicit_brightness) :
        rgb \in {OFF_RGB, <<255, 0, 0>>, <<100, 200, 101>>},
        brightness \in {0, 100, 255},
        kelvin \in {None, Some(2200), Some(4001)},
        transition \in {None, Some(2)},
        explicit_brightness \in {None, Some(200)}}

InitInterp ==
    /\ SeqIdle
    /\ TrackerIdle
    /\ EntityHolding(<<>>)
    /\ top_sequences = None
    /\ cycle_trace = <<>>
    /\ lights = <<>>
    /\ off_sequence = None
    /\ TurnOnIdle /\ TaskIdle
    /\ \E a \in InterpColors, b \in InterpColors, num \in Amounts :
         interp = [a |-> a, b |-> b, num |-> num, result |-> None]

\* a call of a.interpolated_to(b, amount)
InterpolatedTo ==
    /\ interp.result = None
    /\ interp' = [interp EXCEPT
                    !.result = Some(interpolated_to(interp.a, interp.b, interp.num))]
    /\ UNCHANGED <<seqVars, trackerVars, schedVars, top_sequences, cycle_trace,
                   lights, off_sequence, turnOnVars, taskVars>>

NextInterp == InterpolatedTo

SpecInterp == InitInterp /\ [][NextInterp]_vars

----------------------------------------------------------------------------
(* The end points of an interpolation.                                     *)

\* two colors are the same in rgb, kelvin and brightness
SameColor(c, d) ==
    /\ c.rgb = d.rgb
    /\ c.kelvin = d.kelvin
    /\ c.brightness = d.brightness

\* interpolated_to has been called with the amount num / AmountDen
Interpolated(num) ==
    /\ interp # None
    /\ interp.result # None
    /\ interp.num = num

\* C22, as stated: for all colors a and b, with or without kelvin,
\* a.interpolated_to(b, 0) has the rgb, kelvin and brightness of a and
\* a.interpolated_to(b, 1) has the rgb, kelvin and brightness of b.
C22_EndPointsAreTheColors ==
    /\ Interpolated(0) => SameColor(Val(interp.result), interp.a)
    /\ Interpolated(AmountDen) => SameColor(Val(interp.result), interp.b)

\* C22, amended: when neither color has kelvin, the result at amount 0 has
\* the rgb and brightness of a and at amount 1 those of b, and no kelvin;
\* when both have kelvin, the result has the kelvin and brightness of a at
\* amount 0 and of b at amount 1, and the rgb of a at either end; when only
\* one has kelvin the result has no kelvin and the rgb and brightness of the
\* end point.
C22_EndPointsByMode ==
    LET r == Val(interp.result)
        AtEnd(c) ==
            /\ r.brightness = c.brightness
            /\ IF interp.a.kelvin # None /\ interp.b.kelvin # None
               THEN r.kelvin = c.kelvin /\ r.rgb = interp.a.rgb
               ELSE r.kelvin = None /\ r.rgb = c.rgb
    IN  /\ Interpolated(0) => AtEnd(interp.a)
        /\ Interpolated(AmountDen) => AtEnd(interp.b)

\* the end of an interpolation between two kelvin colors of different rgb
\* and brightness has been computed
C22_Witness ==
    /\ Interpolated(AmountDen)
    /\ interp.a.kelvin # None
    /\ interp.b.kelvin # None
    /\ interp.a.kelvin # interp.b.kelvin
    /\ interp.a.rgb # interp.b.rgb
    /\ interp.a.brightness # interp.b.brightness

----------------------------------------------------------------------------
(* Spec: async_turn_on with color arguments (SpecTurnOn).  The light holds *)
(* base off; each call puts an Add for base on on the command queue.  The  *)
(* calls carry no brightness, so _last_brightness stays 255.  The          *)
(* components of an rgb color are kept in thousandths here, since          *)
(* color_temperature_to_rgb returns floats.                                *)

\* the async_turn_on calls made at most
MaxTurnOns == 3

\* an rgb color with whole components, in thousandths
Milli(rgb) == [i \in DOMAIN rgb |-> 1000 * rgb[i]]

\* the keyword arguments of a call; None is a missing key
Kwargs(hs_color, color_temp_kelvin, rgb_color) ==
    [hs_color |-> hs_color, color_temp_kelvin |-> color_temp_kelvin,
     rgb_color |-> rgb_color]

TurnOnKwargs ==
    {Kwargs(None, None, None),
     Kwargs(None, Some(2700), None),
     Kwargs(None, Some(4000), None),
     Kwargs(None, None, Some(<<255, 0, 0>>)),
     Kwargs(None, None, Some(<<100, 50, 25>>)),
     Kwargs(Some(<<120, 100>>), None, None)}

\* color_hs_to_RGB, for the hs colors of TurnOnKwargs
color_hs_to_RGB(hs) ==
    CASE hs = <<120, 100>> -> Milli(<<0, 255, 0>>)

\* color_temperature_to_rgb, for the kelvin values of TurnOnKwargs
color_temperature_to_rgb(kelvin) ==
    CASE kelvin = 2700 -> <<255000, 166720, 87405>>
      [] kelvin = 4000 -> <<255000, 205816, 166081>>

\* color_hsv_to_RGB(h, s, v) with h, s of color_RGB_to_hsv(rgb) and
\* v = (100 / 255) * 255, for the rgb colors of TurnOnKwargs
RgbAtFullBrightness(rgb) ==
    CASE rgb = <<255, 0, 0>> -> Milli(<<255, 0, 0>>)
      [] rgb = <<100, 50, 25>> -> Milli(<<255, 128, 64>>)

\* the rgb async_turn_on makes of its keyword arguments
TurnOnRgb(kwargs) ==
    IF kwargs.hs_color # None THEN color_hs_to_RGB(Val(kwargs.hs_color))
    ELSE IF kwargs.color_temp_kelvin # None
    THEN color_temperature_to_rgb(Val(kwargs.color_temp_kelvin))
    ELSE IF kwargs.rgb_color # None THEN RgbAtFullBrightness(Val(kwargs.rgb_color))
    ELSE Val(last_on_rgb)

InitTurnOn ==
    /\ SeqIdle
    /\ TrackerIdle
    /\ EntityHolding(<<Entry(STATE_OFF, LIGHT_OFF_SEQUENCE)>>)
    /\ top_sequences = None
    /\ cycle_trace = <<>>
    /\ lights = <<>>
    /\ off_sequence = None
    /\ interp = None /\ TaskIdle
    /\ last_on_rgb = Some(Milli(config.rgb))
    /\ turn_on_log = <<>>

\* async_turn_on(**kwargs)
AsyncTurnOn ==
    /\ Len(turn_on_log) < MaxTurnOns
    /\ \E kwargs \in TurnOnKwargs :
         LET rgb == TurnOnRgb(kwargs)
         IN  /\ last_on_rgb' = Some(rgb)
             /\ AddSequence(STATE_ON, LightOnSequence(rgb, TurnOnPriority))
             /\ turn_on_log' = Append(turn_on_log, kwargs)
    /\ UNCHANGED <<config, setup, active, running, pc, peek_timers,
                   cycle_canceler, last_set_color, startup_quiet,
                   wrapped_init_done, response_expected, events, last_service>>
    /\ UNCHANGED <<seqVars, trackerVars, top_sequences, cycle_trace, lights,
                   off_sequence, interp, taskVars>>

NextTurnOn == AsyncTurnOn

SpecTurnOn == InitTurnOn /\ [][NextTurnOn]_vars

----------------------------------------------------------------------------
(* The color mode of base on.                                              *)

\* the call carries a color: kelvin, rgb or hs
BearsColor(kwargs) ==
    \/ kwargs.hs_color # None
    \/ kwargs.color_temp_kelvin # None
    \/ kwargs.rgb_color # None

\* the color of the pattern that call i put on the queue
QueuedColor(i) == Val(task_queue[i].sequence).color

\* the latest call before call i that carries a color, 0 if there is none
LastColorCall(i) ==
    IF \E j \in 1..(i - 1) : BearsColor(turn_on_log[j])
    THEN CHOOSE j \in 1..(i - 1) :
            /\ BearsColor(turn_on_log[j])
            /\ \A k \in (j + 1)..(i - 1) : ~BearsColor(turn_on_log[k])
    ELSE 0

\* the kelvin mode in force after call i: the kelvin of the latest call that
\* carries a color, None if that call carried rgb or hs or there is none
RECURSIVE KelvinMode(_)
KelvinMode(i) ==
    IF i = 0 THEN None
    ELSE IF BearsColor(turn_on_log[i]) THEN turn_on_log[i].color_temp_kelvin
    ELSE KelvinMode(LastColorCall(i))

\* C23: every async_turn_on call puts one Add for base on on the queue; the
\* color of its pattern has kelvin K when the call carries
\* color_temp_kelvin=K, no kelvin when it carries rgb or hs, and for a call
\* without color arguments the mode of the latest color-bearing call: kelvin
\* K if that was a kelvin call, otherwise no kelvin and the last rgb.
C23_TurnOnKeepsColorMode ==
    /\ Len(task_queue) = Len(turn_on_log)
    /\ \A i \in 1..Len(turn_on_log) :
         /\ task_queue[i].action = Some(CONF_ADD)
         /\ task_queue[i].notify_id = Some(STATE_ON)
         /\ QueuedColor(i).kelvin = KelvinMode(i)
         /\ (~BearsColor(turn_on_log[i]) /\ KelvinMode(i) = None /\ i > 1)
                => QueuedColor(i).rgb = QueuedColor(i - 1).rgb

----------------------------------------------------------------------------
(* Spec: the Cycle branch on any Active Set (SpecCycleAny).  A notification*)
(* or the light-on entry may have priority 0 like base off, and stands     *)
(* ahead of base off once its peek boost has been taken back.              *)

\* the entry under key at the given priority
EntryFor(key, priority) ==
    IF key = STATE_OFF THEN Entry(STATE_OFF, LIGHT_OFF_SEQUENCE)
    ELSE Entry(key, SequenceFor(key, priority))

\* the Active Sets that hold base off and are sorted by descending priority,
\* the other entries at priorities 0..MaxPriority
AnyActiveSets ==
    UNION {{[i \in 1..n |-> EntryFor(ks[i], ps[i])] :
                ks \in {k \in [1..n -> ActiveKeys \cup {STATE_OFF}] :
                           /\ \A i, j \in 1..n : i # j => k[i] # k[j]
                           /\ \E i \in 1..n : k[i] = STATE_OFF},
                ps \in {p \in [1..n -> 0..MaxPriority] :
                           \A i \in 1..(n - 1) : p[i] >= p[i + 1]}} :
           n \in 1..(Cardinality(ActiveKeys) + 1)}

InitCycleAny ==
    /\ SeqIdle
    /\ TrackerIdle
    /\ \E act \in {a \in AnyActiveSets : IsSorted(a)} :
         /\ EntityHolding(act)
         /\ cycle_trace = <<act>>
    /\ top_sequences = None
    /\ lights = <<>>
    /\ off_sequence = None
    /\ FuncIdle

SpecCycleAny == InitCycleAny /\ [][NextCycle]_vars

----------------------------------------------------------------------------
(* The Running Set after a recompute pass.                                 *)

\* the identifiers of the top entries that have one
TopIds(act) ==
    LET tops == get_top_sequences(act)
    IN  {Val(tops[i].seq.notify_id) : i \in {j \in DOMAIN tops : tops[j].seq.notify_id # None}}

\* a recompute pass ends without a failed color send
PassEndsWell == PassStep /\ pc' = "wait"

\* C25: at the end of every recompute pass whose color send did not fail the
\* keys of the Running Set are exactly the identifiers of the top entries
\* that have an identifier.
C25_RunningIsTop ==
    [][PassEndsWell => RunningKeys(running') = TopIds(active')]_vars

\* C26: after every recompute pass each animation the Running Set holds is
\* the very object the Active Set holds under the same key, also when an Add
\* has overwritten a key that was active and running.
C26_RunningIsActiveInstance ==
    [][PassStep => \A r \in running' : r.key \in KeysOf(active') /\ r.same]_vars

----------------------------------------------------------------------------
(* The light after its first notification: setup is over, the wrapped      *)
(* light has reported its state, one notification has turned on and the    *)
(* worker has added it (Add branch) and started and shown it (one pass).   *)

\* the state the worker loop is in after that Add and that pass, with ev
\* events counted so far
StartedWith(cfg, n, attributes, state, ev) ==
    LET seq == create_sequence_from_attr(attributes, n)
        boost == cfg.peek_duration > 0 /\ seq.peek_enabled
        auto_clears == seq.clear_delay = Some(0) /\ ~seq.loops_forever
        boosted == IF boost
                   THEN [seq EXCEPT !.priority = @ + Halves(MAXIMUM_PRIORITY)]
                   ELSE seq
        top == run(boosted)
    IN  /\ config = cfg
        /\ setup = "restored"
        /\ pc = "wait"
        /\ active = <<Entry(n, top), Entry(STATE_OFF, LIGHT_OFF_SEQUENCE)>>
        /\ running = {RunningSame(n)}
        /\ task_queue = <<>>
        /\ peek_timers = IF boost /\ ~auto_clears
                         THEN <<[priority |-> seq.priority, notify_id |-> n,
                                  deleted |-> FALSE]>>
                         ELSE <<>>
        /\ cycle_canceler = FALSE
        /\ last_set_color = Some(top.color)
        /\ startup_quiet = FALSE
        /\ wrapped_init_done = TRUE
        /\ response_expected = TRUE
        /\ events = ev
        /\ last_service = [service |-> "turn_on", params |-> light_params(top.color),
                           issued |-> "color"]
        /\ wrapped_state = freeze(update(NewWrappedLightState, state))
        /\ last_accepted = state
        /\ last_call = "freeze"

InitStarted ==
    /\ SeqIdle
    /\ PureIdle
    /\ \E cfg \in Configs, n \in NotifyIds, state \in EntityLightStates :
         \E attributes \in NotifyAttrs(n) :
            StartedWith(cfg, n, attributes, state, 0)

NextStarted ==
    \/ NotifyOn
    \/ NotifyOff
    \/ PeekRestore
    \/ QueueCycle
    \/ AnimationStep
    \/ ProcessSequenceList
    \/ HandleCommand

SpecStarted == InitStarted /\ [][NextStarted]_vars

\* The Delete branch of the worker loop: the step that takes a Delete
\* command off the queue.
DeleteStep ==
    /\ pc = "wait" /\ pc' = "process"
    /\ task_queue # <<>>
    /\ Head(task_queue).action = Some(CONF_DELETE)
    /\ task_queue' = Tail(task_queue)

DeleteKey == Val(Head(task_queue).notify_id)

\* The running animations that the Delete branch asks to stop: stop() is
\* called on the object popped from the Active Set, so it reaches the running
\* animation of the key only when that animation is this very object.
DeleteStops(runs, key) == {r \in runs : r.key = key /\ r.same}

\* The entries of a dictionary other than key, in their order.
Others(dict, key) == SelectSeq(dict, LAMBDA e : e.key # key)

\* C27: a Delete of an active key k leaves k in neither set, asks its running
\* animation to stop, and keeps every other entry, its priority and the
\* order; a Delete of a key that is not active changes neither set.
C27_DeleteFrame ==
    [][DeleteStep =>
         IF DeleteKey \in KeysOf(active)
         THEN /\ DeleteKey \notin KeysOf(active')
              /\ DeleteKey \notin RunningKeys(running')
              /\ active' = Others(active, DeleteKey)
              /\ running' = {r \in running : r.key # DeleteKey}
              /\ \A r \in running :
                    r.key = DeleteKey => r \in DeleteStops(running, DeleteKey)
         ELSE UNCHANGED <<active, running>>]_vars

\* a peek timer fires whose notification was deleted after the timer was armed
StaleTimerStep ==
    /\ PeekTimerStep
    /\ NextTimer.deleted

\* C28: when a peek-boosted notification is deleted before its peek timer
\* fires, the later firing of that timer changes no priority and no order in
\* the Active Set, whatever was handled in between, an Add of the same key
\* included.
C28_StaleTimerIsVoid ==
    [][StaleTimerStep => active' = active]_vars

\* the pass in which sending the top entry's color reports failure: the
\* worker goes to sleep before the reset
FailedSendStep == pc = "process" /\ pc' = "sleep"

\* the end of that pass: the reset of the running sequences after the sleep
ResetStep == pc = "sleep" /\ pc' = "wait"

\* the color of the top entry, which the pass tried to send
TopColor(act) == Lookup(act, Head(get_top_sequences(act)).key).color

\* C29: when sending the top entry's color reports failure, the last-sent
\* color is not set to the unsent color, and the pass ends with every running
\* animation asked to stop, the Running Set empty, the last-sent color
\* cleared and one wake command enqueued; the entries of the Active Set,
\* their priorities and their order are unchanged.
C29_FailedSendResets ==
    [][/\ FailedSendStep =>
            /\ last_set_color' = last_set_color
            /\ last_set_color' # Some(TopColor(active'))
            /\ ActiveView(active') = ActiveView(active)
            /\ task_queue' = task_queue
       /\ ResetStep =>
            /\ \A r \in running :
                  r.same => ~is_running(Lookup(active', r.key))
            /\ running' = {}
            /\ last_set_color' = None
            /\ task_queue' = Append(task_queue, WakeEntry)
            /\ ActiveView(active') = ActiveView(active)]_vars

\* a notification is active, the send of its color has failed and the reset
\* has run: nothing runs, no color counts as sent, a wake command is queued
C29_Witness ==
    /\ pc = "wait"
    /\ ~wrapped_init_done /\ ~startup_quiet
    /\ \E n \in NotifyIds : n \in KeysOf(active)
    /\ running = {}
    /\ last_set_color = None
    /\ \A i \in DOMAIN active : ~is_running(active[i].seq)
    /\ task_queue # <<>> /\ task_queue[Len(task_queue)] = WakeEntry

----------------------------------------------------------------------------
(* The worker when hass.services.async_call raises.  The configurations    *)
(* have no cycle delay, and the animation steps are left out: every pass   *)
(* follows a handled command, so the worker loop that is abandoned leaves  *)
(* no pending queue read behind.                                           *)

RaiseConfigs == {Config(FALSE, TRUE, 5, None), Config(TRUE, FALSE, 0, None)}

InitRaise ==
    /\ SeqIdle
    /\ PureIdle
    /\ \E cfg \in RaiseConfigs, n \in NotifyIds, state \in EntityLightStates :
         \E attributes \in NotifyAttrs(n) :
            StartedWith(cfg, n, attributes, state, 0)

\* faulty variant: an exception ends the worker like a cancellation
WorkerFuncOnException_Breaks == "cancelled"

\* _worker_func, except Exception: the exception is logged and the while loop
\* calls _work_loop again, which begins with a recompute pass
WorkerFuncOnException == "process"

\* _process_sequence_list up to a service call that raises.  Neither
\* _wrapped_light_turn_on, _wrapped_light_turn_off nor the pass catches the
\* exception: it leaves _process_sequence_list and _work_loop, _worker_func
\* logs it and calls _work_loop again, which begins with a new pass.
ServiceCallRaisesBody ==
    /\ pc = "process"
    /\ LET tops == get_top_sequences(active)
       IN  /\ tops # <<>>
           /\ LET top_priority == Head(tops).seq.priority
                  started == StartTops(tops, active, running)
                  remove_list == RemoveList(started.runs, started.act, top_priority)
                  runs == started.runs \ remove_list
                  act == StopAll(started.act, remove_list)
                  top_key == Head(tops).key
                  is_base == top_key \in {STATE_ON, STATE_OFF}
                  color == Lookup(act, top_key).color
                  r == IF is_base /\ is_frozen(wrapped_state)
                       THEN restore_wrapped_light
                       ELSE wrapped_light_turn_on(light_params(color))
              IN  /\ (is_base /\ is_frozen(wrapped_state)) \/ Some(color) # last_set_color
                  /\ r.sent
                  /\ running' = runs
                  /\ active' = act
                  /\ last_service' = [service |-> r.call.service,
                                      params |-> r.call.params,
                                      issued |-> "raised"]
    /\ response_expected' = TRUE
    /\ pc' = WorkerFuncOnException
    /\ UNCHANGED <<config, setup, task_queue, peek_timers, cycle_canceler,
                   last_set_color, startup_quiet, wrapped_init_done, events>>

ServiceCallRaises ==
    /\ ServiceCallRaisesBody
    /\ UNCHANGED <<seqVars, trackerVars, pureVars>>

NextRaise ==
    \/ NotifyOn
    \/ NotifyOff
    \/ PeekRestore
    \/ ProcessSequenceList
    \/ ServiceCallRaises
    \/ HandleCommand

SpecRaise == InitRaise /\ [][NextRaise]_vars

\* the outbound call of a pass raises (the first raise of a series)
RaisedStep ==
    /\ pc = "process"
    /\ last_service.issued # "raised"
    /\ last_service'.issued = "raised"

\* C30: a failure of the outbound call, an exception included, is caught
\* where the call is made: the pass goes on to its one recovery (the wait,
\* then the reset of the running animations); it does not leave the pass and
\* start over with the same command.
C30_FailureIsCaught ==
    [][RaisedStep => pc' = "sleep"]_vars

----------------------------------------------------------------------------
(* A restore attempt that fails.                                           *)

\* the pass finds a base entry on top while the tracker is frozen, and the
\* call of _restore_wrapped_light returns False: startup quiet is over and
\* the wrapped light has not reported a state yet
RestoreFailStep ==
    /\ RestorePassStep
    /\ ~startup_quiet
    /\ ~wrapped_init_done

\* the Active Set and the Running Set as the pass has them when it comes to
\* the restore attempt: the top sequences started, the lower ones stopped
AtTheAttempt ==
    LET tops == get_top_sequences(active)
        started == StartTops(tops, active, running)
        remove_list == RemoveList(started.runs, started.act, Head(tops).seq.priority)
    IN  [act |-> StopAll(started.act, remove_list),
         runs |-> started.runs \ remove_list]

\* the tracker gives up its frozen state
Unfrozen == is_frozen(wrapped_state) /\ ~is_frozen(wrapped_state')

----------------------------------------------------------------------------
(* The worker task until it is cancelled.  The environment is that of      *)
(* SpecRaise, with the removal of the entity added.                        *)

\* async_will_remove_from_hass: self._task.cancel().  The CancelledError is
\* raised at the await the worker is suspended in, leaves _work_loop and is
\* caught by _worker_func, which breaks out of its loop.  The timers and the
\* entity subscriptions are not cancelled with it.
WillRemoveFromHass ==
    /\ pc # "cancelled"
    /\ pc' = "cancelled"
    /\ UNCHANGED <<config, setup, active, running, task_queue, peek_timers,
                   cycle_canceler, last_set_color, startup_quiet,
                   wrapped_init_done, response_expected, events, last_service>>
    /\ UNCHANGED <<seqVars, trackerVars, pureVars>>

NextCancel ==
    \/ NotifyOn
    \/ NotifyOff
    \/ PeekRestore
    \/ ProcessSequenceList
    \/ ServiceCallRaises
    \/ HandleCommand
    \/ WillRemoveFromHass

SpecCancel == InitRaise /\ [][NextCancel]_vars

\* the worker ends
WorkerEnds == pc # "cancelled" /\ pc' = "cancelled"

\* C32: the worker loop ends only when its task is cancelled; an exception
\* raised inside an iteration lets the loop run again from the recompute
\* step with the Active Set retained; after the cancellation no command is
\* handled (the Active Set changes by nothing but a timer, the Running Set
\* and the last-sent color not at all) and no command is sent to the wrapped
\* light.
C32_OnlyCancelEndsWorker ==
    [][/\ RaisedStep => /\ pc' = "process"
                        /\ ActiveView(active') = ActiveView(active)
       /\ WorkerEnds => UNCHANGED <<active, running, task_queue, last_service,
                                    last_set_color>>
       /\ pc = "cancelled" =>
            /\ pc' = "cancelled"
            /\ active' # active => PeekTimerStep
            /\ running' = running
            /\ last_set_color' = last_set_color
            /\ last_service' = last_service
            /\ response_expected' = response_expected]_vars

\* the worker was cancelled after a service call had raised and the loop had
\* started again; commands put on the queue since then are still there
C32_Witness ==
    /\ pc = "cancelled"
    /\ last_service.issued = "raised"
    /\ task_queue # <<>>
    /\ events = MaxEvents

----------------------------------------------------------------------------
(* The queue reads of the worker loop.  _work_loop reads the queue through *)
(* a task, q_task, that it keeps across iterations; a _work_loop that an   *)
(* exception ends leaves its q_task behind.  The environment is that of    *)
(* SpecRaise, with the animation steps.                                    *)

MaxOrphans == 1

\* q_reads.q_task is the state of q_task when the worker last left
\* asyncio.wait: "done" when it took a command, "pending" when only a step
\* signal woke it, "none" in a loop that has not waited yet.
\* q_reads.orphans counts the pending queue reads of abandoned loops.
Reads(q_task, orphans) == [q_task |-> q_task, orphans |-> orphans]

RestartFrame ==
    UNCHANGED <<seqVars, top_sequences, cycle_trace, lights, off_sequence,
                interp, turnOnVars, anim_task>>

InitRestart ==
    /\ SeqIdle
    /\ top_sequences = None
    /\ cycle_trace = <<>>
    /\ lights = <<>>
    /\ off_sequence = None
    /\ interp = None
    /\ TurnOnIdle
    /\ anim_task = None
    /\ q_reads = Reads("done", 0)
    /\ \E cfg \in RaiseConfigs, n \in NotifyIds, state \in EntityLightStates :
         \E attributes \in NotifyAttrs(n) :
            StartedWith(cfg, n, attributes, state, 0)

\* q_task is done: the worker takes the command and handles it.  A put on
\* the queue wakes the oldest read, so a read left pending by an abandoned
\* loop is served before q_task.
WorkerTakesCommand ==
    /\ q_reads.orphans = 0
    /\ HandleCommandBody
    /\ q_reads' = [q_reads EXCEPT !.q_task = "done"]
    /\ RestartFrame

\* a read that an abandoned loop left pending takes the oldest command; no
\* code awaits its result
OrphanTakesCommand ==
    /\ q_reads.orphans > 0
    /\ task_queue # <<>>
    /\ task_queue' = Tail(task_queue)
    /\ q_reads' = [q_reads EXCEPT !.orphans = @ - 1]
    /\ UNCHANGED <<config, setup, active, running, pc, peek_timers,
                   cycle_canceler, last_set_color, startup_quiet,
                   wrapped_init_done, response_expected, events, last_service>>
    /\ UNCHANGED trackerVars
    /\ RestartFrame

\* a running animation ends a step; a worker that it wakes leaves
\* asyncio.wait with q_task pending
StepSignal ==
    /\ AnimationStepBody
    /\ q_reads' = IF pc = "wait" /\ task_queue = <<>>
                  THEN [q_reads EXCEPT !.q_task = "pending"]
                  ELSE q_reads
    /\ UNCHANGED trackerVars
    /\ RestartFrame

\* the service call of the pass raises: _worker_func starts a new
\* _work_loop, whose q_task is None; a pending q_task of the loop that ended
\* stays pending
PassRaises ==
    /\ q_reads.q_task = "pending" => q_reads.orphans < MaxOrphans
    /\ ServiceCallRaisesBody
    /\ q_reads' = Reads("none", IF q_reads.q_task = "pending"
                                THEN q_reads.orphans + 1
                                ELSE q_reads.orphans)
    /\ UNCHANGED trackerVars
    /\ RestartFrame

NextRestart ==
    \/ NotifyOn
    \/ NotifyOff
    \/ PeekRestore
    \/ ProcessSequenceList
    \/ WorkerTakesCommand
    \/ OrphanTakesCommand
    \/ StepSignal
    \/ PassRaises

SpecRestart == InitRestart /\ [][NextRestart]_vars

\* a command leaves the queue
TakenStep ==
    /\ task_queue # <<>>
    /\ task_queue' = Tail(task_queue)

\* C33: no command is lost: whenever a command is taken off the queue, the
\* step that takes it is the worker's, which carries that command out; this
\* also after an exception has ended a loop and the worker has started the
\* next one, and whatever animations are running.
C33_EveryCommandHandled ==
    [][TakenStep => (pc' = "process" /\ Handled(Head(task_queue)))]_vars

----------------------------------------------------------------------------
(* State changes of the wrapped light and the response window.             *)

\* a state-change event of the wrapped light whose old_state is not None
WrappedChangeWithOld ==
    /\ Subscribed
    /\ events' = events + 1
    /\ \E new_state \in {None} \cup {Some(s) : s \in EntityLightStates} :
         HandleWrappedLightChange(new_state, FALSE)

\* a step that opens the response window
WindowOpens == ~response_expected /\ response_expected'

\* C34: a state change of the wrapped light that has a previous state and
\* comes while the response window is open leaves the Active Set, the
\* Running Set, the last-sent color and the queue as they are; one that comes
\* after the window has closed stops every running animation, empties the
\* Running Set, clears the last-sent color and puts a wake command on the
\* queue.  The window is opened only by a pass that issues a command.
C34_WindowDecidesReset ==
    [][/\ WrappedChangeWithOld =>
             IF response_expected
             THEN UNCHANGED <<active, running, last_set_color, task_queue>>
             ELSE /\ active' = StopAll(active, running)
                  /\ \A i \in DOMAIN active' : ~active'[i].seq.is_running
                  /\ running' = {}
                  /\ last_set_color' = None
                  /\ task_queue' = Append(task_queue, WakeEntry)
       /\ WindowOpens => /\ pc = "process"
                         /\ last_service'.issued \in {"color", "restore"}]_vars

\* a state change outside the window has reset a light that had animations
\* running and a color sent, and the wake command is waiting
C34_Witness ==
    /\ ~response_expected
    /\ wrapped_init_done
    /\ last_service.service # "none"
    /\ last_service.issued = "none"
    /\ running = {}
    /\ last_set_color = None
    /\ Len(active) > 1
    /\ task_queue # <<>>
    /\ task_queue[Len(task_queue)] = WakeEntry
    /\ pc = "wait"

----------------------------------------------------------------------------
(* The last-sent color.                                                     *)

\* the pass issues a color command
ColorSendStep == PassStep /\ last_service'.issued = "color"

\* the pass took the color branch and _wrapped_light_turn_on returned True
SendReportsSuccess ==
    /\ pc = "process"
    /\ pc' = "wait"
    /\ ~(TopKey \in {STATE_ON, STATE_OFF} /\ is_frozen(wrapped_state))
    /\ wrapped_light_turn_on(light_params(TopColor(active'))).ok

\* a pass restores the tracked state and the call returns True
RestoreSucceeds == RestorePassStep /\ restore_wrapped_light.ok

\* _reset_running_sequences has run
RunningReset ==
    /\ running' = {}
    /\ task_queue' = Append(task_queue, WakeEntry)

----------------------------------------------------------------------------
(* The animation task of one _NotificationSequence: run, stop, the loop of *)
(* _worker_func and the self-clear after it.                                *)

MaxSteps == 3
MaxRuns == 2

\* what run creates: a stop event that is not set and a task at the head of
\* the loop of _worker_func, with done = False and the sequence reset
NewTask(steps) == [stop |-> FALSE, at |-> "loop", done |-> FALSE, left |-> steps]

\* the task and the stop event that self._task and self._stop_event name
Current == Len(anim_task.tasks)

InitAnim ==
    /\ SeqIdle
    /\ TrackerIdle
    /\ EntityHolding(<<>>)
    /\ top_sequences = None
    /\ cycle_trace = <<>>
    /\ lights = <<>>
    /\ off_sequence = None
    /\ interp = None
    /\ TurnOnIdle
    /\ q_reads = NoReads
    /\ \E clear_delay \in {None, Some(0), Some(5)}, steps \in 1 .. MaxSteps,
          loops_forever \in BOOLEAN :
         anim_task = [clear_delay |-> clear_delay, steps |-> steps,
                      loops_forever |-> loops_forever, tasks |-> <<>>,
                      switch_off |-> <<>>]

AnimFrame ==
    UNCHANGED <<seqVars, trackerVars, schedVars, top_sequences, cycle_trace,
                lights, off_sequence, interp, turnOnVars, q_reads>>

\* self._stop_event.set(), when there is a stop event
SetStop(tasks) ==
    IF tasks = <<>> THEN tasks
    ELSE [tasks EXCEPT ![Len(tasks)].stop = TRUE]

\* run: the stop event of the task before is set, and a new event and a new
\* task are made
AnimRun ==
    /\ Len(anim_task.tasks) < MaxRuns
    /\ anim_task' = [anim_task EXCEPT
                        !.tasks = Append(SetStop(@), NewTask(anim_task.steps))]
    /\ AnimFrame

\* stop: falling out of the top set, a Delete and a reset all come here
AnimStop ==
    /\ anim_task.tasks # <<>>
    /\ ~anim_task.tasks[Current].stop
    /\ anim_task' = [anim_task EXCEPT !.tasks = SetStop(@)]
    /\ AnimFrame

\* while not done and not stop_event.is_set(): the task enters runNextStep
StepBegins ==
    /\ \E i \in DOMAIN anim_task.tasks :
         /\ anim_task.tasks[i].at = "loop"
         /\ ~anim_task.tasks[i].done
         /\ ~anim_task.tasks[i].stop
         /\ anim_task' = [anim_task EXCEPT !.tasks[i].at = "step"]
    /\ AnimFrame

\* runNextStep returns; done is True after the last step of a pattern that
\* does not loop forever
StepReturns ==
    /\ \E i \in DOMAIN anim_task.tasks :
         LET task == anim_task.tasks[i]
             left == IF anim_task.loops_forever THEN task.left ELSE task.left - 1
         IN  /\ task.at = "step"
             /\ anim_task' = [anim_task EXCEPT
                                 !.tasks[i] = [task EXCEPT !.at = "loop",
                                                           !.left = left,
                                                           !.done = (left = 0)]]
    /\ AnimFrame

\* runNextStep raises: except Exception logs, and the code after the loop runs
StepRaises ==
    /\ \E i \in DOMAIN anim_task.tasks :
         /\ anim_task.tasks[i].at = "step"
         /\ anim_task' = [anim_task EXCEPT !.tasks[i].at = "after"]
    /\ AnimFrame

\* the loop condition is false: done, or the stop event is set
LoopEnds ==
    /\ \E i \in DOMAIN anim_task.tasks :
         /\ anim_task.tasks[i].at = "loop"
         /\ anim_task.tasks[i].done \/ anim_task.tasks[i].stop
         /\ anim_task' = [anim_task EXCEPT !.tasks[i].at = "after"]
    /\ AnimFrame

\* if self._clear_delay == 0
AutoClears(task) == anim_task.clear_delay = Some(0)

\* the code after the loop: the switch of the notification is turned off
\* when clear_delay is 0; switch_off records, for each such call, whether
\* done was True and whether the stop event was set
AfterLoop ==
    /\ \E i \in DOMAIN anim_task.tasks :
         LET task == anim_task.tasks[i]
         IN  /\ task.at = "after"
             /\ anim_task' =
                  [anim_task EXCEPT
                      !.tasks[i].at = "ended",
                      !.switch_off = IF AutoClears(task)
                                     THEN Append(@, [done |-> task.done,
                                                     stop |-> task.stop])
                                     ELSE @]
    /\ AnimFrame

NextAnim ==
    \/ AnimRun
    \/ AnimStop
    \/ StepBegins
    \/ StepReturns
    \/ StepRaises
    \/ LoopEnds
    \/ AfterLoop

SpecAnim == InitAnim /\ [][NextAnim]_vars

\* C36: every self-clear (turning the notification's switch off) is issued
\* by a task whose sequence ran to its end, that is after runNextStep
\* returned done; none is issued by a task that was stopped early.
C36_ClearOnlyWhenDone ==
    \A k \in DOMAIN anim_task.switch_off : anim_task.switch_off[k].done

----------------------------------------------------------------------------
(* The priority async_turn_on gives base on, and Adds that were waiting.   *)

\* dynamic priority, with and without a peek window
TurnOnConfigs == {Config(FALSE, TRUE, 5, None), Config(FALSE, TRUE, 0, None)}

\* a notification whose priority is above the priority of the light
UrgentPriority == DEFAULT_PRIORITY + 500

UrgentAttrs ==
    {NotifyAttributes(None, Some(Halves(UrgentPriority)), FALSE, None, Some(peek)) :
        peek \in BOOLEAN}

InitUrgent ==
    /\ SeqIdle
    /\ TrackerIdle
    /\ \E cfg \in TurnOnConfigs : NewEntity(cfg)
    /\ PureIdle
    /\ setup = "new"
    /\ pc = "idle"

\* _handle_notification_change for such a notification turning on
UrgentOn ==
    /\ Subscribed
    /\ Event
    /\ \E n \in NotifyIds : \E attributes \in UrgentAttrs :
         AddSequence(n, create_sequence_from_attr(attributes, n))
    /\ UNCHANGED <<config, setup, active, running, pc, peek_timers,
                   cycle_canceler, last_set_color, startup_quiet,
                   wrapped_init_done, response_expected,
                   last_service>>
    /\ UNCHANGED <<seqVars, trackerVars, pureVars>>

NextUrgent ==
    \/ AddedToHass
    \/ RestoreLastState
    \/ UrgentOn
    \/ TurnOn
    \/ PeekRestore
    \/ AnimationStep
    \/ ProcessSequenceList
    \/ ResetAfterFailure
    \/ HandleCommand

SpecUrgent == InitUrgent /\ [][NextUrgent]_vars

\* the worker handles the Add of base on while dynamic priority is enabled
OnAddStep ==
    /\ AddCommandStep
    /\ config.dynamic_priority
    /\ Val(NextCommand.notify_id) = STATE_ON

\* C37: with dynamic priority enabled, right after the worker has handled
\* the Add that turn_on put on the queue, base on has a priority strictly
\* above that of every other entry of the Active Set and is the only top
\* entry, also when Adds of notifications were waiting on the queue at the
\* time of the turn_on call.
C37_OnIsAboveAll ==
    [][OnAddStep =>
          LET tops == get_top_sequences(active')
          IN  /\ Len(tops) = 1
              /\ tops[1].key = STATE_ON
              /\ \A i \in DOMAIN active' :
                    active'[i].key # STATE_ON =>
                        active'[i].seq.priority
                            < Lookup(active', STATE_ON).priority]_vars

----------------------------------------------------------------------------
(* turn_on of the virtual light while no notification is active.  The      *)
(* light restores power, so no startup quiet period is in force.  The      *)
(* worker task is scheduled fairly; the events of the environment are not. *)

InitOn ==
    /\ SeqIdle
    /\ TrackerIdle
    /\ NewEntity(Config(TRUE, FALSE, 0, None))
    /\ PureIdle
    /\ setup = "new"
    /\ pc = "idle"

NextOn ==
    \/ AddedToHass
    \/ RestoreLastState
    \/ TurnOn
    \/ TurnOff
    \/ WrappedLightChange
    \/ ResponseWindowCloses
    \/ ProcessSequenceList
    \/ ResetAfterFailure
    \/ HandleCommand

SpecOn ==
    /\ InitOn
    /\ [][NextOn]_vars
    /\ WF_vars(ProcessSequenceList)
    /\ WF_vars(ResetAfterFailure)
    /\ WF_vars(HandleCommand)

\* the worker has just handled the Add of base on: the wrapped light is
\* initialised, no startup quiet is in force, nothing else is active, and
\* no command and no timer is waiting
OnAdded ==
    /\ pc = "process"
    /\ KeysOf(active) = {STATE_ON, STATE_OFF}
    /\ TopKey = STATE_ON
    /\ ~Lookup(active, STATE_ON).is_running
    /\ wrapped_init_done
    /\ ~startup_quiet
    /\ is_frozen(wrapped_state)
    /\ task_queue = <<>>
    /\ peek_timers = <<>>
    /\ ~cycle_canceler

\* the command just issued carries the color of base on
OnColorSent ==
    /\ STATE_ON \in KeysOf(active)
    /\ last_service.issued = "color"
    /\ last_service.service = "turn_on"
    /\ last_service.params = light_params(Lookup(active, STATE_ON).color)

\* C38: once the worker has handled the Add of base on, with no notification
\* active, the wrapped light initialised and no startup quiet, it eventually
\* sends the color of base on; no further command, timer or state change is
\* needed for it (none can come: the events are used up and no timer is set).
C38_OnColorIsSent ==
    (OnAdded /\ events = MaxEvents) ~> OnColorSent

----------------------------------------------------------------------------
(* How many calls of runNextStep a compiled sequence takes.                *)

\* the place in steps of the step that opens, and that closes, loop id
OpenAt(steps, id) ==
    CHOOSE k \in DOMAIN steps : steps[k].op = "OpenLoop" /\ steps[k].loop_id = id

CloseAt(steps, id) ==
    CHOOSE k \in DOMAIN steps : steps[k].op = "CloseLoop" /\ steps[k].loop_id = id

\* the loops step k lies in, the step that opens and the step that closes a
\* loop included
LoopsAround(steps, k) ==
    {steps[c].loop_id : c \in {c \in DOMAIN steps :
        /\ steps[c].op = "CloseLoop"
        /\ OpenAt(steps, steps[c].loop_id) <= k
        /\ k <= c}}

\* a loop closed with total_repeats N rewinds while loop_cnt <= N: its body
\* is run N + 1 times
RECURSIVE RunsOf(_, _)
RunsOf(steps, ids) ==
    IF ids = {} THEN 1
    ELSE LET id == CHOOSE id \in ids : TRUE
         IN  (steps[CloseAt(steps, id)].total_repeats + 1) * RunsOf(steps, ids \ {id})

\* the executions of the first k steps over a whole run
RECURSIVE CallsNeeded(_, _)
CallsNeeded(steps, k) ==
    IF k = 0 THEN 0
    ELSE RunsOf(steps, LoopsAround(steps, k)) + CallsNeeded(steps, k - 1)

\* C39: a compiled pattern that does not loop forever returns done at the
\* call whose number is the sum, over its steps, of the times each step is
\* run (a finite number), and at every call after it; a pattern that loops
\* forever returns done at no call.
C39_DoneIffFinite ==
    Compiled =>
        IF sequence.loops_forever
        THEN \A i \in DOMAIN rets : ~rets[i]
        ELSE LET needed == CallsNeeded(sequence.steps, Len(sequence.steps))
             IN  /\ (calls > 0 /\ calls >= needed) => Last(rets)
                 /\ \A i \in DOMAIN rets : i < needed => ~rets[i]

\* a pattern of two nested loops has returned done after more calls than
\* it has steps
C39_Witness ==
    /\ ReturnedDone
    /\ ~sequence.loops_forever
    /\ Cardinality({k \in DOMAIN sequence.steps : sequence.steps[k].op = "OpenLoop"}) = 2
    /\ \E k \in DOMAIN sequence.steps : Cardinality(LoopsAround(sequence.steps, k)) = 2
    /\ calls = CallsNeeded(sequence.steps, Len(sequence.steps))
    /\ calls > 2 * Len(sequence.steps)

----------------------------------------------------------------------------
(* Two nested finite loops: the pattern ["[", "[", X, "],M", "],N"].       *)

MaxNestedCalls == 48

NestedPattern(x, m, n) ==
    <<ItemOpen, ItemOpen, x, ItemClose(<<m>>), ItemClose(<<n>>)>>

InitNested ==
    /\ TrackerIdle
    /\ SchedIdle
    /\ \E x \in ColorItems, m \in 0 .. MaxRepeat, n \in 0 .. MaxRepeat :
         pattern = NestedPattern(x, m, n)
    /\ phase = "new"
    /\ sequence = NoSequence
    /\ workspace = NewWorkspace(OffColor)
    /\ calls = 0
    /\ rets = <<>>
    /\ set_trace = <<>>

RunNested ==
    /\ calls < MaxNestedCalls
    /\ RunNextStepBody

NextNested == CreateFromPattern \/ RunNested

SpecNested == InitNested /\ [][NextNested]_vars

\* the loop ids of the outer and of the inner loop, and the count each was
\* closed with
OuterId == sequence.steps[1].loop_id
InnerId == sequence.steps[2].loop_id
TotalRepeats(id) == sequence.steps[CloseAt(sequence.steps, id)].total_repeats

\* the iterations a loop makes from a new record: it is left at the first
\* loop_cnt for which _StepCloseLoop does not rewind
Iterations(total_repeats) ==
    Min({c \in 1 .. total_repeats + 2 : ~LoopContinues(total_repeats, c)})

\* the record of the inner loop is made, and is dropped
InnerEntered ==
    /\ Compiled
    /\ workspace.data[InnerId] = None
    /\ workspace'.data[InnerId] # None

InnerLeft ==
    /\ Compiled
    /\ workspace.data[InnerId] # None
    /\ workspace'.data[InnerId] = None

\* C40: in ["[", "[", X, "],M", "],N"] the counter of the inner loop starts
\* afresh each time the inner loop is entered, the inner loop makes the same
\* number of iterations every time, X has been set (inner iterations) times
\* (outer iterations) times when the run is done, and no loop record is left
\* then.
C40_InnerLoopRestarts ==
    /\ [][/\ InnerEntered => Val(workspace'.data[InnerId]).loop_cnt = 0
          /\ InnerLeft => Val(workspace.data[InnerId]).loop_cnt + 1
                              = Iterations(TotalRepeats(InnerId))]_vars
    /\ [](ReturnedDone =>
            /\ Len(set_trace) = Iterations(TotalRepeats(InnerId))
                                    * Iterations(TotalRepeats(OuterId))
            /\ \A id \in LoopIds : workspace.data[id] = None)

\* the run of ["[", "[", X, "],2", "],2"] is done and X was set more often
\* than once per iteration of the outer loop
C40_Witness ==
    /\ ReturnedDone
    /\ TotalRepeats(InnerId) = 2
    /\ TotalRepeats(OuterId) = 2
    /\ Len(set_trace) > Iterations(TotalRepeats(OuterId))

====
